---- MODULE Spec2Model ----
(***************************************************************************)
(* Memory firewall agent: constraint parsing (agent/policy.py), request    *)
(* evaluation (agent/orchestrator.py), the graph fact store                *)
(* (agent/neo4j_client.py), the memory service client                      *)
(* (agent/memmachine_client.py) and the two HTTP handlers (app.py).        *)
(*                                                                         *)
(* Texts are sequences of tokens.  A token is a record [k, w, n]:          *)
(*   k = "word" : the word w                                               *)
(*   k = "t12"  : a 12-hour time without minutes, "9pm"   (n = 9, w = pm)  *)
(*   k = "t12m" : a 12-hour time with minutes, "10:30pm"  (n = 10, w = pm) *)
(*   k = "t24"  : a 24-hour time with minutes, "21:00"    (n = 21)         *)
(*   k = "num"  : a bare integer, "21" or "1000"          (n)              *)
(*   k = "usd"  : a dollar amount, "$1000" or "$999.50"   (n in cents)     *)
(* Whitespace between tokens is what \s+ collapses; money is kept in cents.*)
(***************************************************************************)
EXTENDS Integers, Sequences, FiniteSets, TLC

VARIABLES
    graph,       \* the property graph of the graph store
    mem,         \* the memory service: user id -> list of constraint records
    memEver,     \* history: <<user id, record id>> of every record mem ever held
    memEnabled,  \* MemMachineClient._enabled(): remote service or fallback file
    nextC,       \* number of constraint ids handed out
    nextA,       \* number of action ids handed out
    fails,       \* number of collaborator calls that have failed
    wk,          \* the handler each worker runs: position and locals
    mirrored,    \* history: the payloads upsert_constraint has returned for
    lastCall,    \* the latest direct call of a client method
    repeated,    \* the latest direct call repeated the one before it
    calls,       \* number of direct calls of client methods
    race         \* two concurrent upsert_constraint calls: positions, start graph

vars == <<graph, mem, memEver, memEnabled, nextC, nextA, fails, wk, mirrored, lastCall, repeated, calls, race>>

----------------------------------------------------------------------------
(* Bounds of the model *)

\* number of constraint ids parse_constraint may hand out
MaxConstraints == 2
\* number of action ids evaluate_request may hand out
MaxActions == 1
\* number of collaborator calls (memory service, graph store) that may fail
MaxFailures == 1
\* number of direct calls of Neo4jClient methods in a run
MaxCalls == 4
\* number of constraint records on file when one request is evaluated
MaxOnFile == 4

----------------------------------------------------------------------------
(* Tokens and texts *)

W(s) == [k |-> "word", w |-> s, n |-> 0]
T12(h, mer) == [k |-> "t12", w |-> mer, n |-> h]
T12m(h, mer) == [k |-> "t12m", w |-> mer, n |-> h]
T24(h) == [k |-> "t24", w |-> "", n |-> h]
Num(i) == [k |-> "num", w |-> "", n |-> i]
Usd(c) == [k |-> "usd", w |-> "", n |-> c]

\* str.lower() on the words of the vocabulary that carry capitals
LowerWord(s) ==
    CASE s = "No" -> "no"
      [] s = "Budget" -> "budget"
      [] s = "Never" -> "never"
      [] s = "Contractor" -> "contractor"
      [] s = "PM" -> "pm"
      [] OTHER -> s

\* re.sub(r"\s+", " ", s.strip().lower()): whitespace is the token boundary,
\* so what is left of the normalisation is the lower-casing of every token
_normalize(t) == [i \in DOMAIN t |-> [t[i] EXCEPT !.w = LowerWord(t[i].w)]]

_norm(t) == [i \in DOMAIN t |-> [t[i] EXCEPT !.w = LowerWord(t[i].w)]]

\* proper substrings among the words of the vocabulary: <<needle, word>>
SubPairs ==
    { <<"meeting", "meetings">>, <<"call", "calls">>, <<"data", "dataset">>,
      <<"data", "datasets">>, <<"dataset", "datasets">>, <<"file", "files">>,
      <<"contractor", "contractors">>, <<"max", "maximum">>,
      <<"cap", "capped">>, <<"call", "recall">> }

SubstringOf(needle, word) == needle = word \/ <<needle, word>> \in SubPairs

\* Python's `needle in t` for a one-word needle; "$" is found in a usd token
Has(t, needle) ==
    IF needle = "$"
    THEN \E i \in DOMAIN t : t[i].k = "usd"
    ELSE \E i \in DOMAIN t : t[i].k = "word" /\ SubstringOf(needle, t[i].w)

\* `needle in t` for a two-word needle ("third party"): the first word ends
\* one token and the second starts the next
Has2(t, first, second) ==
    \E i \in DOMAIN t :
        /\ i + 1 \in DOMAIN t
        /\ t[i].k = "word" /\ t[i].w = first
        /\ t[i + 1].k = "word" /\ SubstringOf(second, t[i + 1].w)

HasAny(t, needles) == \E s \in needles : Has(t, s)

\* the smallest index satisfying P, as a set of at most one element
FirstIdx(t, P(_)) ==
    {i \in DOMAIN t : P(i) /\ \A j \in DOMAIN t : (j < i) => ~P(j)}

\* 12-hour to 24-hour conversion of both time parsers
To24(h, mer) ==
    IF mer = "pm" /\ h # 12 THEN h + 12
    ELSE IF mer = "am" /\ h = 12 THEN 0
    ELSE h

InDay(h) == 0 <= h /\ h <= 23

----------------------------------------------------------------------------
(* agent/policy.py *)

NO_MEETINGS_AFTER_HOUR == "NO_MEETINGS_AFTER_HOUR"
BUDGET_CAP == "BUDGET_CAP"
NO_SHARING_WITH_EXTERNALS == "NO_SHARING_WITH_EXTERNALS"
HARD == "HARD"
SOFT == "SOFT"

\* r"\bafter\s+(\d{1,2})\s*(a\.?m\.?|p\.?m\.?)\b" at token i
AfterMer(t, i) ==
    /\ i + 1 \in DOMAIN t
    /\ t[i].k = "word" /\ t[i].w = "after"
    /\ t[i + 1].k = "t12"

\* r"\bafter\s+(\d{1,2})(?::\d{2})?\b" at token i: "after 21", "after 21:00",
\* and "after 10:30pm" read as 10 (the group stops before ":30pm")
AfterBare(t, i) ==
    /\ i + 1 \in DOMAIN t
    /\ t[i].k = "word" /\ t[i].w = "after"
    /\ \/ t[i + 1].k = "num" /\ t[i + 1].n <= 99
       \/ t[i + 1].k \in {"t24", "t12m"}

\* _parse_time_to_hour without its tests 0 <= h <= 23
PolicyParseHourUnchecked(text) ==
    LET t == _normalize(text)
        m == FirstIdx(t, LAMBDA i : AfterMer(t, i))
        h1 == {To24(t[i + 1].n, t[i + 1].w) : i \in m}
        m2 == FirstIdx(t, LAMBDA i : AfterBare(t, i))
        h2 == {t[i + 1].n : i \in m2}
    IN  IF h1 # {} THEN h1 ELSE h2

\* _parse_time_to_hour of policy.py: the hour as a set of at most one element
PolicyParseHour(text) ==
    LET t == _normalize(text)
        m == FirstIdx(t, LAMBDA i : AfterMer(t, i))
        h1 == {To24(t[i + 1].n, t[i + 1].w) : i \in m}
        m2 == FirstIdx(t, LAMBDA i : AfterBare(t, i))
        h2 == {t[i + 1].n : i \in m2}
    IN  IF \E h \in h1 : InDay(h) THEN h1
        ELSE {h \in h2 : InDay(h)}

\* r"\b(?:cap|max(?:imum)?)\s*[:=]?\s*([0-9][0-9,]*(?:\.[0-9]+)?)\b" at token i
LabelledNum(t, i) ==
    /\ i + 1 \in DOMAIN t
    /\ t[i].k = "word" /\ t[i].w \in {"cap", "max", "maximum"}
    /\ t[i + 1].k = "num"

\* _parse_money_amount: the amount in cents, as a set of at most one element
PolicyParseAmount(text) ==
    LET t == _normalize(text)
        m == FirstIdx(t, LAMBDA i : t[i].k = "usd")
        m2 == FirstIdx(t, LAMBDA i : LabelledNum(t, i))
    IN  IF m # {} THEN {t[i].n : i \in m}
        ELSE {t[i + 1].n * 100 : i \in m2}

ErrTime == "Could not parse the time."
ErrAmount == "Could not parse the amount."
ErrUnrecognized == "Unrecognized constraint."

ExternalWords(t) ==
    \/ HasAny(t, {"contractor", "external", "vendor"})
    \/ Has2(t, "third", "party")
    \/ Has2(t, "3rd", "party")

\* parse_constraint: [c |-> {constraint}, err |-> {message}], each a set of
\* at most one element; cid is the identifier uuid4 hands out
parse_constraint(user_text, cid) ==
    LET raw == user_text
        t == _normalize(raw)
        hour == PolicyParseHour(t)
        amt == PolicyParseAmount(t)
        Mk(type, params) ==
            [id |-> cid, type |-> type, severity |-> HARD, text |-> raw,
             params |-> params]
    IN  IF (Has(t, "meeting") \/ Has(t, "call")) /\ Has(t, "after")
        THEN IF hour = {}
             THEN [c |-> {}, err |-> {ErrTime}]
             ELSE [c |-> {Mk(NO_MEETINGS_AFTER_HOUR, [hour |-> h]) : h \in hour},
                   err |-> {}]
        ELSE IF \/ Has(t, "budget") /\ Has(t, "cap")
                \/ Has(t, "max") /\ Has(t, "budget")
                \/ Has2(t, "budget", "cap")
                \/ Has(t, "spend") /\ Has(t, "max")
        THEN IF amt = {}
             THEN [c |-> {}, err |-> {ErrAmount}]
             ELSE [c |-> {Mk(BUDGET_CAP, [max_amount |-> a]) : a \in amt},
                   err |-> {}]
        ELSE IF /\ HasAny(t, {"share", "send", "export", "give", "forward"})
                /\ HasAny(t, {"dataset", "data", "file", "files"})
                /\ ExternalWords(t)
        THEN [c |-> {Mk(NO_SHARING_WITH_EXTERNALS,
                        [banned_party |->
                            IF Has(t, "contractor") THEN "contractor"
                            ELSE "external"])},
              err |-> {}]
        ELSE [c |-> {}, err |-> {ErrUnrecognized}]

----------------------------------------------------------------------------
(* agent/orchestrator.py: classification and extraction *)

SCHEDULE_MEETING == "SCHEDULE_MEETING"
SHARE_DATA == "SHARE_DATA"
SPEND_MONEY == "SPEND_MONEY"
UNKNOWN == "UNKNOWN"

\* the share test tried before the meeting test
classify_action_share_first(user_request) ==
    LET t == _norm(user_request)
    IN  IF /\ HasAny(t, {"share", "send", "export", "forward", "upload"})
           /\ HasAny(t, {"dataset", "data", "file", "files", "csv"})
        THEN SHARE_DATA
        ELSE IF HasAny(t, {"meeting", "call", "schedule", "book", "invite"})
        THEN SCHEDULE_MEETING
        ELSE IF HasAny(t, {"buy", "purchase", "spend", "pay", "order"}) \/ Has(t, "$")
        THEN SPEND_MONEY
        ELSE UNKNOWN

classify_action(user_request) ==
    LET t == _norm(user_request)
    IN  IF HasAny(t, {"meeting", "call", "schedule", "book", "invite"})
        THEN SCHEDULE_MEETING
        ELSE IF /\ HasAny(t, {"share", "send", "export", "forward", "upload"})
                /\ HasAny(t, {"dataset", "data", "file", "files", "csv"})
        THEN SHARE_DATA
        ELSE IF HasAny(t, {"buy", "purchase", "spend", "pay", "order"}) \/ Has(t, "$")
        THEN SPEND_MONEY
        ELSE UNKNOWN

\* r"\b(\d{1,2})(?::(\d{2}))?\s*(a\.?m\.?|p\.?m\.?)\b" at token i
TimeMer(t, i) == t[i].k \in {"t12", "t12m"}

\* r"\b(\d{1,2})(?::\d{2})\b" at token i ("10:30pm" has no word boundary
\* after the minutes)
TimeColon(t, i) == t[i].k = "t24"

\* _parse_time_to_hour of orchestrator.py: a set of at most one element
RequestParseHour(text) ==
    LET t == _norm(text)
        m == FirstIdx(t, LAMBDA i : TimeMer(t, i))
        h1 == {To24(t[i].n, t[i].w) : i \in m}
        m2 == FirstIdx(t, LAMBDA i : TimeColon(t, i))
        h2 == {t[i].n : i \in m2}
    IN  IF \E h \in h1 : InDay(h) THEN h1
        ELSE {h \in h2 : InDay(h)}

\* _parse_amount: cents, a set of at most one element
RequestParseAmount(text) ==
    LET t == _norm(text)
        m == FirstIdx(t, LAMBDA i : t[i].k = "usd")
    IN  {t[i].n : i \in m}

\* no request is taken to mention an external party
MentionsNobody(text) == FALSE

_mentions_external_party(text) == ExternalWords(_norm(text))

\* f"{x:.0f}" of an amount in cents: the nearest dollar, ties to even
Fmt0(cents) ==
    LET q == cents \div 100
        r == cents % 100
    IN  IF r < 50 THEN q
        ELSE IF r > 50 THEN q + 1
        ELSE IF q % 2 = 0 THEN q ELSE q + 1

Alt(name, a, b) == [alt |-> name, a |-> a, b |-> b]

_alternatives_for_meeting(max_hour) ==
    LET safe_hour == IF max_hour < 20 THEN max_hour ELSE 20
    IN  << Alt("Schedule it at {safe_hour}:00 (8pm) instead of after {max_hour}:00.",
               safe_hour, max_hour),
           Alt("Schedule it tomorrow at 8:00pm.", 0, 0),
           Alt("If it must be late, ask for an explicit exception/override first.", 0, 0) >>

_alternatives_for_sharing ==
    << Alt("Share a redacted/synthetic dataset instead of the full customer dataset.", 0, 0),
       Alt("Share only aggregated metrics or schema, not raw records.", 0, 0),
       Alt("Route the request through an approved internal channel or get written approval.", 0, 0) >>

_alternatives_for_budget(max_amount) ==
    << Alt("Reduce scope to stay within the ${max_amount:.0f} budget cap.",
           Fmt0(max_amount), 0),
       Alt("Request approval to increase budget (one-time exception).", 0, 0),
       Alt("Split the purchase into phases or use a lower-cost alternative.", 0, 0) >>

Reason(kind, a, b) == [kind |-> kind, a |-> a, b |-> b]

\* dict.get(key, default)
Get(d, key, default) == IF key \in DOMAIN d THEN d[key] ELSE default

\* the element of the normalized_constraints list built from record c
NormalizeConstraint(c) ==
    [id |-> IF "constraint_id" \in DOMAIN c THEN c["constraint_id"] ELSE c["id"],
     type |-> c["type"],
     severity |-> Get(c, "severity", HARD),
     params |-> Get(c, "params", <<>>),
     text |-> Get(c, "text", <<>>)]

\* Check A with req_hour >= max_hour in place of req_hour > max_hour
MatchOneAtLimit(action_type, user_request, c) ==
    LET req_hour == RequestParseHour(user_request)
        amt == RequestParseAmount(user_request)
        max_hour == Get(c.params, "hour", 21)
        cap == Get(c.params, "max_amount", 0)
    IN  IF action_type = SCHEDULE_MEETING /\ c.type = NO_MEETINGS_AFTER_HOUR
        THEN {[cid |-> c.id, reason |-> Reason("meeting", h, max_hour),
               alts |-> _alternatives_for_meeting(max_hour)] :
                 h \in {x \in req_hour : x >= max_hour}}
        ELSE IF action_type = SHARE_DATA /\ c.type = NO_SHARING_WITH_EXTERNALS
        THEN IF _mentions_external_party(user_request)
             THEN {[cid |-> c.id, reason |-> Reason("sharing", 0, 0),
                    alts |-> _alternatives_for_sharing]}
             ELSE {}
        ELSE IF action_type = SPEND_MONEY /\ c.type = BUDGET_CAP
        THEN {[cid |-> c.id, reason |-> Reason("budget", a, cap),
               alts |-> _alternatives_for_budget(cap)] :
                 a \in {x \in amt : cap > 0 /\ x > cap}}
        ELSE {}

\* Check C without the test cap > 0
MatchOneAnyCap(action_type, user_request, c) ==
    LET req_hour == RequestParseHour(user_request)
        amt == RequestParseAmount(user_request)
        max_hour == Get(c.params, "hour", 21)
        cap == Get(c.params, "max_amount", 0)
    IN  IF action_type = SCHEDULE_MEETING /\ c.type = NO_MEETINGS_AFTER_HOUR
        THEN {[cid |-> c.id, reason |-> Reason("meeting", h, max_hour),
               alts |-> _alternatives_for_meeting(max_hour)] :
                 h \in {x \in req_hour : x > max_hour}}
        ELSE IF action_type = SHARE_DATA /\ c.type = NO_SHARING_WITH_EXTERNALS
        THEN IF _mentions_external_party(user_request)
             THEN {[cid |-> c.id, reason |-> Reason("sharing", 0, 0),
                    alts |-> _alternatives_for_sharing]}
             ELSE {}
        ELSE IF action_type = SPEND_MONEY /\ c.type = BUDGET_CAP
        THEN {[cid |-> c.id, reason |-> Reason("budget", a, cap),
               alts |-> _alternatives_for_budget(cap)] :
                 a \in {x \in amt : x > cap}}
        ELSE {}

\* Checks A, B and C on one normalized constraint: the violation it adds, as
\* a set of at most one [cid, reason, alts]
MatchOne(action_type, user_request, c) ==
    LET req_hour == RequestParseHour(user_request)
        amt == RequestParseAmount(user_request)
        max_hour == Get(c.params, "hour", 21)
        cap == Get(c.params, "max_amount", 0)
    IN  IF action_type = SCHEDULE_MEETING /\ c.type = NO_MEETINGS_AFTER_HOUR
        THEN {[cid |-> c.id, reason |-> Reason("meeting", h, max_hour),
               alts |-> _alternatives_for_meeting(max_hour)] :
                 h \in {x \in req_hour : x > max_hour}}
        ELSE IF action_type = SHARE_DATA /\ c.type = NO_SHARING_WITH_EXTERNALS
        THEN IF _mentions_external_party(user_request)
             THEN {[cid |-> c.id, reason |-> Reason("sharing", 0, 0),
                    alts |-> _alternatives_for_sharing]}
             ELSE {}
        ELSE IF action_type = SPEND_MONEY /\ c.type = BUDGET_CAP
        THEN {[cid |-> c.id, reason |-> Reason("budget", a, cap),
               alts |-> _alternatives_for_budget(cap)] :
                 a \in {x \in amt : cap > 0 /\ x > cap}}
        ELSE {}

\* the loops over normalized_constraints: the violations in list order, each
\* with the alternatives it extends the list by
RECURSIVE MatchFrom(_, _, _, _)
MatchFrom(action_type, user_request, constraints, i) ==
    IF i > Len(constraints) THEN <<>>
    ELSE LET v == MatchOne(action_type, user_request,
                           NormalizeConstraint(constraints[i]))
             rest == MatchFrom(action_type, user_request, constraints, i + 1)
         IN  IF v = {} THEN rest
             ELSE <<CHOOSE x \in v : TRUE>> \o rest

RECURSIVE Flatten(_)
Flatten(ss) == IF ss = <<>> THEN <<>> ELSE Head(ss) \o Flatten(Tail(ss))

\* violations: List[(constraint_id, reason)] and alternatives: List[str]
Match(action_type, user_request, constraints) ==
    LET ms == MatchFrom(action_type, user_request, constraints, 1)
    IN  [violations |-> [j \in DOMAIN ms |-> [cid |-> ms[j].cid, reason |-> ms[j].reason]],
         alternatives |-> Flatten([j \in DOMAIN ms |-> ms[j].alts])]

\* the alternatives as appended, repetitions kept
KeepRepeated(s) == s

\* the uniq_alts loop: first occurrences, in order
RECURSIVE Dedup(_)
Dedup(s) ==
    IF s = <<>> THEN <<>>
    ELSE LET init == Dedup(SubSeq(s, 1, Len(s) - 1))
             last == s[Len(s)]
         IN  IF \E j \in DOMAIN init : init[j] = last THEN init
             ELSE Append(init, last)

\* the cap of uniq_alts[:5]
MaxAlternatives == 5

Truncate(s, n) == SubSeq(s, 1, IF Len(s) < n THEN Len(s) ELSE n)

----------------------------------------------------------------------------
(* agent/neo4j_client.py: the graph fact store *)

\* The graph is a record.  Nodes are functions from the node's id (unique per
\* label by ensure_schema) to its properties; relationships without
\* properties are functions from <<start, end>> to the number of parallel
\* edges; VIOLATES maps <<action, constraint>> to the sequence of the reasons
\* of its parallel edges.
EmptyGraph ==
    [users |-> {}, constraints |-> <<>>, actions |-> <<>>,
     timeWindows |-> <<>>, resources |-> <<>>,
     hasConstraint |-> <<>>, requested |-> <<>>,
     requiresTW |-> <<>>, bansResource |-> <<>>, violates |-> <<>>]

\* CREATE in place of MERGE: one more parallel edge on every call
CreateEdge(edges, e) ==
    IF e \in DOMAIN edges THEN [edges EXCEPT ![e] = @ + 1] ELSE edges @@ (e :> 1)

\* MERGE (a)-[:R]->(b) between bound nodes: created only when absent
MergeEdge(edges, e) == IF e \in DOMAIN edges THEN edges ELSE edges @@ (e :> 1)

\* MERGE (n {id: k}) SET n.props: the node is created or overwritten
SetNode(nodes, k, props) == [x \in DOMAIN nodes \cup {k} |-> IF x = k THEN props ELSE nodes[x]]

Count(edges, e) == IF e \in DOMAIN edges THEN edges[e] ELSE 0

\* json.dumps of a dict: the JSON text, as the set of its members
JsonDumps(d) == {<<key, d[key]>> : key \in DOMAIN d}

\* json.loads of that text
JsonLoads(j) == [key \in {p[1] : p \in j} |-> (CHOOSE p \in j : p[1] = key)[2]]

upsert_user(G, user_id) == [G EXCEPT !.users = @ \cup {user_id}]

\* first statement of upsert_constraint: user, constraint, HAS_CONSTRAINT
\* the first statement with CREATE (u)-[:HAS_CONSTRAINT]->(c) in place of MERGE
UpsertConstraintTxCreate(G, user_id, c) ==
    [G EXCEPT
        !.users = @ \cup {user_id},
        !.constraints = SetNode(@, c.id,
            [type |-> c.type, severity |-> c.severity, text |-> c.text,
             params_json |-> JsonDumps(c.params)]),
        !.hasConstraint = CreateEdge(@, <<user_id, c.id>>)]

\* the first statement of upsert_constraint: user, constraint node, edge
UpsertConstraintTx(G, user_id, c) ==
    [G EXCEPT
        !.users = @ \cup {user_id},
        !.constraints = SetNode(@, c.id,
            [type |-> c.type, severity |-> c.severity, text |-> c.text,
             params_json |-> JsonDumps(c.params)]),
        !.hasConstraint = MergeEdge(@, <<user_id, c.id>>)]

\* f"tw-0-{hour}"
TwId(hour) == <<"tw", 0, hour>>

\* the time window keyed by the constraint instead of by the hour
TimeWindowTxPerConstraint(G, c) ==
    LET hour == Get(c.params, "hour", 21)
        tw_id == <<"tw", c.id, hour>>
    IN  IF c.id \notin DOMAIN G.constraints THEN G
        ELSE [G EXCEPT
                !.timeWindows = SetNode(@, tw_id, [startHour |-> 0, endHour |-> hour]),
                !.requiresTW = MergeEdge(@, <<c.id, tw_id>>)]

\* second statement, NO_MEETINGS_AFTER_HOUR: MATCH the constraint, MERGE the
\* time window and the edge; no row matched means nothing is written
TimeWindowTx(G, c) ==
    LET hour == Get(c.params, "hour", 21)
        tw_id == TwId(hour)
    IN  IF c.id \notin DOMAIN G.constraints THEN G
        ELSE [G EXCEPT
                !.timeWindows = SetNode(@, tw_id, [startHour |-> 0, endHour |-> hour]),
                !.requiresTW = MergeEdge(@, <<c.id, tw_id>>)]

\* the resource keyed by the party as written, not lower-cased
ResourceTxCaseSensitive(G, c) ==
    LET banned_party == Get(c.params, "banned_party", "external")
        r_id == <<"party", banned_party>>
        g1 == [G EXCEPT !.resources = SetNode(@, r_id,
                  [kind |-> "party", name |-> LowerWord(banned_party)])]
    IN  IF c.id \notin DOMAIN G.constraints THEN g1
        ELSE [g1 EXCEPT !.bansResource = MergeEdge(@, <<c.id, r_id>>)]

\* f"party-{banned_party}"
PartyId(banned_party) == <<"party", banned_party>>

\* the resource named by the default party instead of the constraint's
ResourceTxDefaultName(G, c) ==
    LET r_id == PartyId(LowerWord(Get(c.params, "banned_party", "external")))
        g1 == [G EXCEPT !.resources = SetNode(@, r_id, [kind |-> "party", name |-> "external"])]
    IN  IF c.id \notin DOMAIN G.constraints THEN g1
        ELSE [g1 EXCEPT !.bansResource = MergeEdge(@, <<c.id, r_id>>)]

\* second statement, NO_SHARING_WITH_EXTERNALS: MERGE and SET the resource,
\* then MATCH the constraint and MERGE the edge
ResourceTx(G, c) ==
    LET banned_party == LowerWord(Get(c.params, "banned_party", "external"))
        r_id == PartyId(banned_party)
        g1 == [G EXCEPT !.resources = SetNode(@, r_id, [kind |-> "party", name |-> banned_party])]
    IN  IF c.id \notin DOMAIN G.constraints THEN g1
        ELSE [g1 EXCEPT !.bansResource = MergeEdge(@, <<c.id, r_id>>)]

HasSatellite(type) == type \in {NO_MEETINGS_AFTER_HOUR, NO_SHARING_WITH_EXTERNALS}

\* the type-specific statement of upsert_constraint
SatelliteTx(G, c) ==
    LET g1 == IF c.type = NO_MEETINGS_AFTER_HOUR THEN TimeWindowTx(G, c) ELSE G
    IN  IF c.type = NO_SHARING_WITH_EXTERNALS THEN ResourceTx(g1, c) ELSE g1

\* a whole upsert_constraint call whose statements all succeed
upsert_constraint(G, user_id, c) == SatelliteTx(UpsertConstraintTx(G, user_id, c), c)

\* record_action without its MERGE (u)-[:REQUESTED]->(a)
record_action_no_edge(G, user_id, a) ==
    [G EXCEPT
        !.users = @ \cup {user_id},
        !.actions = SetNode(@, a.id, [type |-> a.type, text |-> a.text, ts |-> a.ts])]

\* record_action; a.ts is a set of at most one timestamp (None is {})
record_action(G, user_id, a) ==
    LET old == IF a.id \in DOMAIN G.actions THEN G.actions[a.id].ts ELSE {}
    IN  [G EXCEPT
            !.users = @ \cup {user_id},
            !.actions = SetNode(@, a.id,
                [type |-> a.type, text |-> a.text,
                 ts |-> IF a.ts = {} THEN old ELSE a.ts]),
            !.requested = MergeEdge(@, <<user_id, a.id>>)]

\* record_violation that also marks the Constraint node it points at
record_violation_marking(G, action_id, constraint_id, reason) ==
    LET e == <<action_id, constraint_id>>
    IN  IF action_id \notin DOMAIN G.actions \/ constraint_id \notin DOMAIN G.constraints
        THEN G
        ELSE [G EXCEPT !.violates = (e :> <<reason>>) @@ @,
                       !.constraints[constraint_id].severity = "VIOLATED"]

\* record_violation: both MATCHes must find their node, else no row and no
\* write; MERGE binds every existing VIOLATES edge of the pair, SET rewrites
\* the reason of each
record_violation(G, action_id, constraint_id, reason) ==
    LET e == <<action_id, constraint_id>>
    IN  IF action_id \notin DOMAIN G.actions \/ constraint_id \notin DOMAIN G.constraints
        THEN G
        ELSE IF e \in DOMAIN G.violates
        THEN [G EXCEPT !.violates[e] = [i \in DOMAIN @ |-> reason]]
        ELSE [G EXCEPT !.violates = @ @@ (e :> <<reason>>)]

\* explain_violations: the rows of the query, each with the number of times
\* the query returns it (one per combination of matched edges)
explain_violations(G, user_id, action_id) ==
    LET cs == {c \in DOMAIN G.constraints :
                 /\ user_id \in G.users
                 /\ <<user_id, c>> \in DOMAIN G.hasConstraint
                 /\ action_id \in DOMAIN G.actions
                 /\ <<action_id, c>> \in DOMAIN G.violates}
        Tws(c) == {t \in DOMAIN G.timeWindows : <<c, t>> \in DOMAIN G.requiresTW}
        Rs(c) == {r \in DOMAIN G.resources : <<c, r>> \in DOMAIN G.bansResource}
        \* OPTIONAL MATCH keeps the row, with nulls, when nothing matches
        OptTw(c) == IF Tws(c) = {} THEN {{}} ELSE {{t} : t \in Tws(c)}
        OptR(c) == IF Rs(c) = {} THEN {{}} ELSE {{r} : r \in Rs(c)}
        Row(c, tw, r) ==
            [constraint_id |-> c,
             type |-> G.constraints[c].type,
             severity |-> G.constraints[c].severity,
             text |-> G.constraints[c].text,
             params |-> JsonLoads(G.constraints[c].params_json),
             time_window |-> {[startHour |-> G.timeWindows[t].startHour,
                               endHour |-> G.timeWindows[t].endHour] : t \in tw},
             banned_resource |-> {[kind |-> G.resources[x].kind,
                                   name |-> G.resources[x].name] : x \in r}]
        Times(c, tw, r) ==
            G.hasConstraint[<<user_id, c>>] * Len(G.violates[<<action_id, c>>])
            * (IF tw = {} THEN 1 ELSE G.requiresTW[<<c, CHOOSE t \in tw : TRUE>>])
            * (IF r = {} THEN 1 ELSE G.bansResource[<<c, CHOOSE x \in r : TRUE>>])
    IN  {[row |-> Row(c, tw, r), times |-> Times(c, tw, r)] :
            <<c, tw, r>> \in UNION {{c} \X OptTw(c) \X OptR(c) : c \in cs}}

----------------------------------------------------------------------------
(* agent/memmachine_client.py: the memory service client *)

\* mem is the "users" object of the fallback file (or the records the remote
\* service holds): user id -> list of constraint records

\* _list_local
_list_local(file, user_id) == Get(file, user_id, <<>>)

\* the record appended without dropping the one of the same id
StoreAppendOnly(data, user_id, constraint_dict) ==
    LET items == Get(data, user_id, <<>>)
    IN  [u \in DOMAIN data \cup {user_id} |->
            IF u = user_id THEN Append(items, constraint_dict) ELSE data[u]]

\* _store_local after its _read_local: the content _write_local writes
_store_local(data, user_id, constraint_dict) ==
    LET items == Get(data, user_id, <<>>)
        kept == SelectSeq(items, LAMBDA x : x.id # constraint_dict.id)
    IN  [u \in DOMAIN data \cup {user_id} |->
            IF u = user_id THEN Append(kept, constraint_dict) ELSE data[u]]

\* what a successful POST /memories leaves in the service: upsert by id
RemoteStore(service, user_id, constraint_dict) ==
    _store_local(service, user_id, constraint_dict)

\* the orders GET /memories may return a user's records in
Perms(s) ==
    {[i \in DOMAIN s |-> s[f[i]]] :
        f \in {g \in [DOMAIN s -> DOMAIN s] : \A i, j \in DOMAIN s : g[i] = g[j] => i = j}}

RemoteList(service, user_id) == Perms(Get(service, user_id, <<>>))

\* the ids of the records a store holds for each user
Stored(file) == {<<u, file[u][i].id>> : <<u, i>> \in UNION {{u} \X DOMAIN file[u] : u \in DOMAIN file}}

----------------------------------------------------------------------------
(* app.py: the two request handlers, one step per call of a collaborator *)

USER_ID == "demo_user"

\* f"c-{uuid4().hex[:8]}" and f"a-{uuid4().hex[:10]}": the n-th identifier drawn
CId(n) == <<"c", n>>

\* an action id that is not fresh: every request under the same id
AIdReused(n) == <<"a", 0>>

AId(n) == <<"a", n>>
NoId == <<>>

\* requests are handled one at a time here; the races of concurrent calls are
\* modelled by the specifications further down
Workers == {"w1"}

\* the constraint declarations POST /constraints is given
ConstraintTexts ==
    { <<W("No"), W("meetings"), W("after"), T12(9, "pm")>>,
      <<W("Budget"), W("cap"), Usd(100000)>>,
      <<W("Never"), W("share"), W("datasets"), W("with"), W("external"), W("contractors")>>,
      <<W("no"), W("meetings"), W("after"), W("lunch")>> }

\* the requests POST /request is given here; sharing requests are among
\* EvalRequestTexts and RuleRequestTexts
RequestTexts ==
    { <<W("schedule"), W("a"), W("call"), W("at"), T12(10, "pm")>>,
      <<W("buy"), W("a"), W("license"), W("for"), Usd(150000)>> }

NoResp ==
    [status |-> "none", ok |-> FALSE, detail |-> "", constraint |-> {},
     action_id |-> NoId, action_type |-> "", violations |-> {}, alternatives |-> <<>>]

IdleWorker ==
    [pc |-> "idle", op |-> "none", text |-> <<>>, parsed |-> {}, data |-> <<>>,
     constraints |-> <<>>, action_id |-> NoId, action_type |-> "", matched |-> FALSE,
     violations |-> <<>>, alternatives |-> <<>>, k |-> 0, resp |-> NoResp]

\* worker w is running no handler
Free(w) == wk[w].pc \in {"idle", "done"}

\* the handler of worker w ends with response r
Finish(w, r) == [wk EXCEPT ![w].pc = "done", ![w].resp = r]

\* the exception swallowed: the handler answers 200
RaiseSwallowed(w) == Finish(w, [NoResp EXCEPT !.status = "200", !.ok = TRUE])

\* an exception of a collaborator call leaves the handler: HTTP 500
Raise(w) == Finish(w, [NoResp EXCEPT !.status = "500"])

TheParsed(w) == CHOOSE c \in wk[w].parsed : TRUE

Response200(c) == [NoResp EXCEPT !.status = "200", !.ok = TRUE, !.constraint = {c}]

\* add_constraint, up to the call of mem.store_constraint: parse_constraint
\* and the 400 answer of a parse error
DeclParse(w, text) ==
    /\ Free(w)
    /\ LET r == parse_constraint(text, CId(nextC + 1))
       IN  IF r.err # {}
           THEN /\ wk' = [wk EXCEPT ![w] =
                           [IdleWorker EXCEPT !.pc = "done", !.op = "declare", !.text = text,
                              !.resp = [NoResp EXCEPT !.status = "400",
                                          !.detail = CHOOSE e \in r.err : TRUE]]]
                /\ nextC' = nextC
           ELSE /\ nextC < MaxConstraints
                /\ wk' = [wk EXCEPT ![w] =
                           [IdleWorker EXCEPT !.pc = "store", !.op = "declare", !.text = text,
                              !.parsed = r.c]]
                /\ nextC' = nextC + 1
    /\ UNCHANGED <<graph, mem, memEver, memEnabled, nextA, fails, mirrored, lastCall, repeated, calls, race>>

\* store_constraint, remote mode: the POST answers below 300
DeclStoreRemote(w) ==
    /\ wk[w].pc = "store" /\ memEnabled
    /\ mem' = RemoteStore(mem, USER_ID, TheParsed(w))
    /\ memEver' = memEver \cup Stored(mem')
    /\ wk' = [wk EXCEPT ![w].pc = "upsert"]
    /\ UNCHANGED <<graph, memEnabled, nextC, nextA, fails, mirrored, lastCall, repeated, calls, race>>

\* the failed store swallowed: the handler goes on to the graph mirror
DeclStoreRemoteFailSwallowed(w) ==
    /\ wk[w].pc = "store" /\ memEnabled
    /\ wk' = [wk EXCEPT ![w].pc = "upsert"]
    /\ fails < MaxFailures /\ fails' = fails + 1
    /\ UNCHANGED <<graph, mem, memEver, memEnabled, nextC, nextA, mirrored, lastCall, repeated, calls, race>>

\* store_constraint, remote mode: status >= 300 or a timeout raises
DeclStoreRemoteFail(w) ==
    /\ wk[w].pc = "store" /\ memEnabled
    /\ wk' = Raise(w)
    /\ UNCHANGED <<graph, mem, memEver, memEnabled, nextC, nextA, mirrored, lastCall, repeated, calls, race>>
    /\ fails < MaxFailures /\ fails' = fails + 1

\* store_constraint, fallback mode: _read_local
DeclStoreRead(w) ==
    /\ wk[w].pc = "store" /\ ~memEnabled
    /\ wk' = [wk EXCEPT ![w].pc = "store_write", ![w].data = mem]
    /\ UNCHANGED <<graph, mem, memEver, memEnabled, nextC, nextA, fails, mirrored, lastCall, repeated, calls, race>>

\* store_constraint, fallback mode: upsert by id and _write_local
DeclStoreWrite(w) ==
    /\ wk[w].pc = "store_write"
    /\ mem' = _store_local(wk[w].data, USER_ID, TheParsed(w))
    /\ memEver' = memEver \cup Stored(mem')
    /\ wk' = [wk EXCEPT ![w].pc = "upsert", ![w].data = <<>>]
    /\ UNCHANGED <<graph, memEnabled, nextC, nextA, fails, mirrored, lastCall, repeated, calls, race>>

\* upsert_constraint, first statement; a type without satellite returns
DeclUpsert(w) ==
    /\ wk[w].pc = "upsert"
    /\ graph' = UpsertConstraintTx(graph, USER_ID, TheParsed(w))
    /\ wk' = IF HasSatellite(TheParsed(w).type)
             THEN [wk EXCEPT ![w].pc = "satellite"]
             ELSE Finish(w, Response200(TheParsed(w)))
    /\ mirrored' = IF HasSatellite(TheParsed(w).type) THEN mirrored
                   ELSE mirrored \cup {TheParsed(w)}
    /\ UNCHANGED <<mem, memEver, memEnabled, nextC, nextA, fails, lastCall, repeated, calls, race>>

DeclUpsertFail(w) ==
    /\ wk[w].pc = "upsert"
    /\ wk' = Raise(w)
    /\ UNCHANGED <<graph, mem, memEver, memEnabled, nextC, nextA, mirrored, lastCall, repeated, calls, race>>
    /\ fails < MaxFailures /\ fails' = fails + 1

\* upsert_constraint, type-specific statement, and the 200 answer
DeclSatellite(w) ==
    /\ wk[w].pc = "satellite"
    /\ graph' = SatelliteTx(graph, TheParsed(w))
    /\ wk' = Finish(w, Response200(TheParsed(w)))
    /\ mirrored' = mirrored \cup {TheParsed(w)}
    /\ UNCHANGED <<mem, memEver, memEnabled, nextC, nextA, fails, lastCall, repeated, calls, race>>

DeclSatelliteFail(w) ==
    /\ wk[w].pc = "satellite"
    /\ wk' = Raise(w)
    /\ UNCHANGED <<graph, mem, memEver, memEnabled, nextC, nextA, mirrored, lastCall, repeated, calls, race>>
    /\ fails < MaxFailures /\ fails' = fails + 1

StartRequest(w, text, constraints) ==
    [wk EXCEPT ![w] = [IdleWorker EXCEPT !.pc = "record", !.op = "request",
                          !.text = text, !.constraints = constraints]]

\* process_request: mem.list_constraints, fallback mode
ProcListLocal(w, text) ==
    /\ Free(w) /\ ~memEnabled /\ nextA < MaxActions
    /\ wk' = StartRequest(w, text, _list_local(mem, USER_ID))
    /\ UNCHANGED <<graph, mem, memEver, memEnabled, nextC, nextA, fails, mirrored, lastCall, repeated, calls, race>>

\* process_request: mem.list_constraints, remote mode, in any order
ProcListRemote(w, text) ==
    /\ Free(w) /\ memEnabled /\ nextA < MaxActions
    /\ \E l \in RemoteList(mem, USER_ID) : wk' = StartRequest(w, text, l)
    /\ UNCHANGED <<graph, mem, memEver, memEnabled, nextC, nextA, fails, mirrored, lastCall, repeated, calls, race>>

ProcListRemoteFail(w, text) ==
    /\ Free(w) /\ memEnabled
    /\ wk' = [wk EXCEPT ![w] = [IdleWorker EXCEPT !.pc = "done", !.op = "request",
                 !.text = text, !.resp = [NoResp EXCEPT !.status = "500"]]]
    /\ UNCHANGED <<graph, mem, memEver, memEnabled, nextC, nextA, mirrored, lastCall, repeated, calls, race>>
    /\ fails < MaxFailures /\ fails' = fails + 1

\* the Decision of the approve branch
Approved(action_id, action_type) ==
    [NoResp EXCEPT !.status = "200", !.ok = TRUE, !.action_id = action_id,
       !.action_type = action_type,
       !.detail = "Approved: no constraint violations detected."]

\* the Decision of the block branch
Blocked(action_id, action_type, explain, alternatives) ==
    [NoResp EXCEPT !.status = "200", !.ok = FALSE, !.action_id = action_id,
       !.action_type = action_type,
       !.detail = "Blocked: request violates one or more persistent constraints.",
       !.violations = explain,
       !.alternatives = Truncate(Dedup(alternatives), MaxAlternatives)]

\* evaluate_request from classify_action to the end of the three checks:
\* the action is recorded, then matched; without violation it is approved
EvalRecord(w) ==
    /\ wk[w].pc = "record" /\ nextA < MaxActions
    /\ LET action_type == classify_action(wk[w].text)
           action_id == AId(nextA + 1)
           m == Match(action_type, wk[w].text, wk[w].constraints)
           me == [wk[w] EXCEPT !.action_id = action_id, !.action_type = action_type,
                     !.matched = TRUE, !.violations = m.violations,
                     !.alternatives = m.alternatives]
       IN  /\ graph' = record_action(graph, USER_ID,
                          [id |-> action_id, type |-> action_type, text |-> wk[w].text,
                           ts |-> {nextA + 1}])
           /\ wk' = [wk EXCEPT ![w] =
                       IF m.violations = <<>>
                       THEN [me EXCEPT !.pc = "done", !.resp = Approved(action_id, action_type)]
                       ELSE [me EXCEPT !.pc = "violation", !.k = 1]]
    /\ nextA' = nextA + 1
    /\ UNCHANGED <<mem, memEver, memEnabled, nextC, fails, mirrored, lastCall, repeated, calls, race>>

\* neo.record_action raises: the id is spent, nothing is matched
EvalRecordFail(w) ==
    /\ wk[w].pc = "record" /\ nextA < MaxActions
    /\ wk' = [wk EXCEPT ![w].pc = "done", ![w].action_id = AId(nextA + 1),
                ![w].resp = [NoResp EXCEPT !.status = "500"]]
    /\ nextA' = nextA + 1
    /\ UNCHANGED <<graph, mem, memEver, memEnabled, nextC, mirrored, lastCall, repeated, calls, race>>
    /\ fails < MaxFailures /\ fails' = fails + 1

\* one turn of the loop over violations: neo.record_violation
EvalViolation(w) ==
    /\ wk[w].pc = "violation"
    /\ LET v == wk[w].violations[wk[w].k]
       IN  graph' = record_violation(graph, wk[w].action_id, v.cid, v.reason)
    /\ wk' = IF wk[w].k = Len(wk[w].violations)
             THEN [wk EXCEPT ![w].pc = "explain"]
             ELSE [wk EXCEPT ![w].k = @ + 1]
    /\ UNCHANGED <<mem, memEver, memEnabled, nextC, nextA, fails, mirrored, lastCall, repeated, calls, race>>

EvalViolationFail(w) ==
    /\ wk[w].pc = "violation"
    /\ wk' = Raise(w)
    /\ UNCHANGED <<graph, mem, memEver, memEnabled, nextC, nextA, mirrored, lastCall, repeated, calls, race>>
    /\ fails < MaxFailures /\ fails' = fails + 1

\* neo.explain_violations and the blocked Decision
EvalExplain(w) ==
    /\ wk[w].pc = "explain"
    /\ wk' = Finish(w, Blocked(wk[w].action_id, wk[w].action_type,
                               explain_violations(graph, USER_ID, wk[w].action_id),
                               wk[w].alternatives))
    /\ UNCHANGED <<graph, mem, memEver, memEnabled, nextC, nextA, fails, mirrored, lastCall, repeated, calls, race>>

EvalExplainFail(w) ==
    /\ wk[w].pc = "explain"
    /\ wk' = Raise(w)
    /\ UNCHANGED <<graph, mem, memEver, memEnabled, nextC, nextA, mirrored, lastCall, repeated, calls, race>>
    /\ fails < MaxFailures /\ fails' = fails + 1

NoCall == <<"none">>

NoRace == [pc |-> <<>>, user_id |-> "", c |-> {}, start |-> EmptyGraph]

\* after _startup: ensure_schema and upsert_user(USER_ID); the memory service
\* is configured (remote) or not (fallback file) for the whole run
Init ==
    /\ graph = upsert_user(EmptyGraph, USER_ID)
    /\ mem = <<>>
    /\ memEver = {}
    /\ memEnabled \in BOOLEAN
    /\ nextC = 0
    /\ nextA = 0
    /\ fails = 0
    /\ wk = [w \in Workers |-> IdleWorker]
    /\ mirrored = {}
    /\ lastCall = NoCall
    /\ repeated = FALSE
    /\ calls = 0
    /\ race = NoRace

Next ==
    \/ \E w \in Workers, text \in ConstraintTexts : DeclParse(w, text)
    \/ \E w \in Workers : DeclStoreRemote(w)
    \/ \E w \in Workers : DeclStoreRemoteFail(w)
    \/ \E w \in Workers : DeclStoreRead(w)
    \/ \E w \in Workers : DeclStoreWrite(w)
    \/ \E w \in Workers : DeclUpsert(w)
    \/ \E w \in Workers : DeclUpsertFail(w)
    \/ \E w \in Workers : DeclSatellite(w)
    \/ \E w \in Workers : DeclSatelliteFail(w)
    \/ \E w \in Workers, text \in RequestTexts : ProcListLocal(w, text)
    \/ \E w \in Workers, text \in RequestTexts : ProcListRemote(w, text)
    \/ \E w \in Workers, text \in RequestTexts : ProcListRemoteFail(w, text)
    \/ \E w \in Workers : EvalRecord(w)
    \/ \E w \in Workers : EvalRecordFail(w)
    \/ \E w \in Workers : EvalViolation(w)
    \/ \E w \in Workers : EvalViolationFail(w)
    \/ \E w \in Workers : EvalExplain(w)
    \/ \E w \in Workers : EvalExplainFail(w)

Spec == Init /\ [][Next]_vars

----------------------------------------------------------------------------
(* Properties of the handlers *)

\* worker w has returned a Decision to the caller of POST /request
Returned(w) ==
    wk[w].op = "request" /\ wk[w].pc = "done" /\ wk[w].resp.status = "200"

\* the memory record of the list evaluate_request was given that carries id cid
ListedRecord(w, cid) ==
    LET l == wk[w].constraints
    IN  l[CHOOSE i \in DOMAIN l : l[i].id = cid]

\* C1: once evaluate_request has matched, and whenever it has returned a
\* Decision (approved or blocked), the graph holds the Action node of its
\* fresh action id, with the classified type and the request text, and one
\* REQUESTED edge from the user; the graph holds no other Action node than
\* those of the ids handed out.
ActionRecordedBeforeMatching ==
    /\ DOMAIN graph.actions \subseteq {AId(n) : n \in 1..nextA}
    /\ \A w \in Workers :
        (wk[w].op = "request" /\ (wk[w].matched \/ wk[w].resp.status = "200")) =>
            LET a == wk[w].action_id
            IN  /\ a \in DOMAIN graph.actions
                /\ graph.actions[a].type = classify_action(wk[w].text)
                /\ graph.actions[a].text = wk[w].text
                /\ USER_ID \in graph.users
                /\ Count(graph.requested, <<USER_ID, a>>) = 1

\* a blocked Decision has been returned and its action is in the graph
BlockedDecisionReturned ==
    \E w \in Workers :
        /\ Returned(w) /\ ~wk[w].resp.ok
        /\ wk[w].action_id \in DOMAIN graph.actions

\* C2: whenever evaluate_request has returned a Decision, the graph holds
\* the Action node and one VIOLATES edge from it to the constraint of every
\* violation the matcher found.
NoPartialSuccess ==
    \A w \in Workers :
        Returned(w) =>
            /\ wk[w].action_id \in DOMAIN graph.actions
            /\ \A j \in DOMAIN wk[w].violations :
                LET e == <<wk[w].action_id, wk[w].violations[j].cid>>
                IN  e \in DOMAIN graph.violates /\ Len(graph.violates[e]) = 1

\* the detail the explanation of constraint record c must carry
ExpectedTimeWindow(c) ==
    IF c.type = NO_MEETINGS_AFTER_HOUR
    THEN {[startHour |-> 0, endHour |-> c.params.hour]}
    ELSE {}

ExpectedResource(c) ==
    IF c.type = NO_SHARING_WITH_EXTERNALS
    THEN {[kind |-> "party", name |-> LowerWord(c.params.banned_party)]}
    ELSE {}

\* C3: the violations list of every blocked Decision has exactly one entry
\* per constraint the matcher found violated and no other entry, each entry
\* with the constraint's params, the TimeWindow of an hour constraint, the
\* Resource of a sharing constraint, and no detail otherwise.
ExplainOneEntryPerViolation ==
    \A w \in Workers :
        (Returned(w) /\ ~wk[w].resp.ok) =>
            /\ \A j \in DOMAIN wk[w].violations :
                LET cid == wk[w].violations[j].cid
                    c == ListedRecord(w, cid)
                    es == {e \in wk[w].resp.violations : e.row.constraint_id = cid}
                IN  /\ Cardinality(es) = 1
                    /\ \A e \in es :
                        /\ e.times = 1
                        /\ e.row.params = c.params
                        /\ e.row.time_window = ExpectedTimeWindow(c)
                        /\ e.row.banned_resource = ExpectedResource(c)
            /\ \A e \in wk[w].resp.violations :
                \E j \in DOMAIN wk[w].violations :
                    wk[w].violations[j].cid = e.row.constraint_id

\* C5, as claimed: every Constraint and every Action of the graph is, or has
\* been, a record of the memory service.
GraphEntitiesInMemory ==
    /\ \A c \in DOMAIN graph.constraints : \E u \in graph.users : <<u, c>> \in memEver
    /\ \A a \in DOMAIN graph.actions : \E u \in graph.users : <<u, a>> \in memEver

\* C5, amended: every Constraint of the graph, and every HAS_CONSTRAINT
\* edge, is or has been a record the memory service holds for that user.
GraphConstraintsInMemory ==
    /\ \A c \in DOMAIN graph.constraints : <<USER_ID, c>> \in memEver
    /\ \A e \in DOMAIN graph.hasConstraint : e \in memEver

\* a declaration failed part-way after its Constraint node was written
ConstraintMirroredThenFailed ==
    \E w \in Workers :
        /\ wk[w].op = "declare" /\ wk[w].pc = "done" /\ wk[w].resp.status = "500"
        /\ TheParsed(w).id \in DOMAIN graph.constraints

\* the satellites a constraint node is linked to
TimeWindowsOf(G, cid) == {t \in DOMAIN G.timeWindows : <<cid, t>> \in DOMAIN G.requiresTW}
ResourcesOf(G, cid) == {r \in DOMAIN G.resources : <<cid, r>> \in DOMAIN G.bansResource}

\* every relationship of the graph exists once
NoParallelEdges(G) ==
    /\ \A e \in DOMAIN G.hasConstraint : G.hasConstraint[e] = 1
    /\ \A e \in DOMAIN G.requested : G.requested[e] = 1
    /\ \A e \in DOMAIN G.requiresTW : G.requiresTW[e] = 1
    /\ \A e \in DOMAIN G.bansResource : G.bansResource[e] = 1
    /\ \A e \in DOMAIN G.violates : Len(G.violates[e]) = 1

\* C6, as claimed: a constraint text declared twice is in the graph as after
\* one declaration, that is, as one Constraint node.
DeclareTwiceSameGraph ==
    \A c1, c2 \in DOMAIN graph.constraints :
        graph.constraints[c1].text = graph.constraints[c2].text => c1 = c2

\* C6, amended: two completed declarations of the same text give two
\* Constraint nodes (distinct fresh ids, equal properties, one
\* HAS_CONSTRAINT edge each) that link to one and the same satellite node;
\* no satellite node and no edge is duplicated.
DeclareTwiceSharesSatellite ==
    /\ NoParallelEdges(graph)
    /\ \A c1, c2 \in mirrored :
        (c1.text = c2.text /\ c1.id # c2.id) =>
            /\ {c1.id, c2.id} \subseteq DOMAIN graph.constraints
            /\ graph.constraints[c1.id] = graph.constraints[c2.id]
            /\ {<<USER_ID, c1.id>>, <<USER_ID, c2.id>>} \subseteq DOMAIN graph.hasConstraint
            /\ TimeWindowsOf(graph, c1.id) = TimeWindowsOf(graph, c2.id)
            /\ ResourcesOf(graph, c1.id) = ResourcesOf(graph, c2.id)
            /\ Cardinality(TimeWindowsOf(graph, c1.id) \cup ResourcesOf(graph, c1.id))
                  = (IF HasSatellite(c1.type) THEN 1 ELSE 0)

\* the same hour constraint text has been declared twice, both mirrored
SameTextDeclaredTwice ==
    \E c1, c2 \in mirrored :
        c1.text = c2.text /\ c1.id # c2.id /\ c1.type = NO_MEETINGS_AFTER_HOUR

\* C9: a constraint upsert_constraint has returned for is linked, if of type
\* NO_MEETINGS_AFTER_HOUR, by REQUIRES_TIMEWINDOW to the TimeWindow with
\* startHour 0 and endHour its hour; if of type NO_SHARING_WITH_EXTERNALS, by
\* BANS_RESOURCE to the Resource of kind 'party' named after its banned
\* party; and has no other satellite link, none at all for any other type.
SatelliteMaterialized ==
    \A c \in mirrored :
        LET tws == TimeWindowsOf(graph, c.id)
            rs == ResourcesOf(graph, c.id)
        IN  /\ c.id \in DOMAIN graph.constraints
            /\ {[startHour |-> graph.timeWindows[t].startHour,
                 endHour |-> graph.timeWindows[t].endHour] : t \in tws}
                  = ExpectedTimeWindow(c)
            /\ {[kind |-> graph.resources[r].kind,
                 name |-> graph.resources[r].name] : r \in rs}
                  = ExpectedResource(c)
            /\ Cardinality(tws) = (IF c.type = NO_MEETINGS_AFTER_HOUR THEN 1 ELSE 0)
            /\ Cardinality(rs) = (IF c.type = NO_SHARING_WITH_EXTERNALS THEN 1 ELSE 0)

\* a sharing constraint and a budget constraint have both been mirrored
SharingAndBudgetMirrored ==
    /\ \E c \in mirrored : c.type = NO_SHARING_WITH_EXTERNALS
    /\ \E c \in mirrored : c.type = BUDGET_CAP

----------------------------------------------------------------------------
(* Evaluation against constraints already on file *)

\* declarations that parse, among them two hour limits and two budget caps
EvalConstraintTexts ==
    { <<W("No"), W("meetings"), W("after"), T12(9, "pm")>>,
      <<W("no"), W("calls"), W("after"), T24(19)>>,
      <<W("Budget"), W("cap"), Usd(100000)>>,
      <<W("max"), W("budget"), Usd(50040)>>,
      <<W("Never"), W("share"), W("datasets"), W("with"), W("external"), W("contractors")>> }

EvalRequestTexts ==
    { <<W("schedule"), W("a"), W("call"), W("at"), T12(10, "pm")>>,
      <<W("schedule"), W("a"), W("call"), W("at"), T12(8, "pm")>>,
      <<W("export"), W("the"), W("customer"), W("dataset"), W("to"), W("our"), W("contractor")>>,
      <<W("export"), W("the"), W("customer"), W("dataset"), W("internally")>>,
      <<W("buy"), W("a"), W("license"), W("for"), Usd(150000)>>,
      <<W("buy"), W("a"), W("license"), W("for"), Usd(50000)>>,
      <<W("hello")>> }

\* the constraint the i-th of the declarations ts parses to
Declared(ts, i) == CHOOSE c \in parse_constraint(ts[i], CId(i)).c : TRUE

\* the graph after the first i of the declarations ts have gone through
\* add_constraint without failure
RECURSIVE MirrorAll(_, _)
MirrorAll(ts, i) ==
    IF i = 0 THEN upsert_user(EmptyGraph, USER_ID)
    ELSE upsert_constraint(MirrorAll(ts, i - 1), USER_ID, Declared(ts, i))

\* the state after some declarations have been stored and mirrored
InitEval ==
    /\ \E n \in 0..MaxConstraints :
        \E ts \in [1..n -> EvalConstraintTexts] :
            /\ mem = IF n = 0 THEN <<>>
                     ELSE (USER_ID :> [i \in 1..n |-> Declared(ts, i)])
            /\ graph = MirrorAll(ts, n)
            /\ mirrored = {Declared(ts, i) : i \in 1..n}
            /\ memEver = {<<USER_ID, CId(i)>> : i \in 1..n}
            /\ nextC = n
    /\ memEnabled \in BOOLEAN
    /\ nextA = 0
    /\ fails = 0
    /\ wk = [w \in Workers |-> IdleWorker]
    /\ lastCall = NoCall
    /\ repeated = FALSE
    /\ calls = 0
    /\ race = NoRace

NextEval ==
    \/ \E w \in Workers, text \in EvalRequestTexts : ProcListLocal(w, text)
    \/ \E w \in Workers, text \in EvalRequestTexts : ProcListRemote(w, text)
    \/ \E w \in Workers, text \in EvalRequestTexts : ProcListRemoteFail(w, text)
    \/ \E w \in Workers : EvalRecord(w)
    \/ \E w \in Workers : EvalRecordFail(w)
    \/ \E w \in Workers : EvalViolation(w)
    \/ \E w \in Workers : EvalViolationFail(w)
    \/ \E w \in Workers : EvalExplain(w)
    \/ \E w \in Workers : EvalExplainFail(w)

SpecEval == InitEval /\ [][NextEval]_vars

\* C4: the Decision evaluate_request returned has the ok flag, the set of
\* violated constraints and the ordered alternatives list that it would
\* have for every other order of the same constraint records.
DeterministicUnderListOrder ==
    \A w \in Workers :
        Returned(w) =>
            \A l \in Perms(wk[w].constraints) :
                LET m == Match(wk[w].action_type, wk[w].text, l)
                IN  /\ wk[w].resp.ok = (m.violations = <<>>)
                    /\ {m.violations[j].cid : j \in DOMAIN m.violations}
                         = {wk[w].violations[j].cid : j \in DOMAIN wk[w].violations}
                    /\ wk[w].resp.alternatives
                         = Truncate(Dedup(m.alternatives), MaxAlternatives)

----------------------------------------------------------------------------
(* Direct calls of the Neo4jClient methods, with any arguments *)

Users == {USER_ID, "other_user"}

\* the params of the ConstraintPayloads, by type
ClientParams ==
    { <<NO_MEETINGS_AFTER_HOUR, [hour |-> 21]>>,
      <<NO_MEETINGS_AFTER_HOUR, [hour |-> 19]>>,
      <<BUDGET_CAP, [max_amount |-> 100000]>>,
      <<NO_SHARING_WITH_EXTERNALS, [banned_party |-> "Contractor"]>>,
      <<NO_SHARING_WITH_EXTERNALS, [banned_party |-> "contractor"]>> }

ClientPayloads ==
    {[id |-> CId(n), type |-> tp[1], severity |-> HARD, text |-> <<W("text")>>,
      params |-> tp[2]] : n \in 1..2, tp \in ClientParams}

\* ActionPayloads, with and without timestamp
ClientActions ==
    {[id |-> AId(1), type |-> SCHEDULE_MEETING, text |-> <<W("call")>>, ts |-> ts] :
        ts \in {{}, {1}, {2}}}

ClientReasons == {Reason("meeting", 22, 21), Reason("sharing", 0, 0)}

\* bookkeeping of a direct call
Called(call) ==
    /\ calls < MaxCalls
    /\ calls' = calls + 1
    /\ lastCall' = call
    /\ repeated' = (call = lastCall)
    /\ UNCHANGED <<mem, memEver, memEnabled, nextC, nextA, fails, wk, race>>

ClientUpsertUser(u) ==
    /\ graph' = upsert_user(graph, u)
    /\ Called(<<"upsert_user", u>>)
    /\ UNCHANGED mirrored

ClientUpsertConstraint(u, c) ==
    /\ graph' = upsert_constraint(graph, u, c)
    /\ mirrored' = mirrored \cup {c}
    /\ Called(<<"upsert_constraint", u, c>>)

ClientRecordAction(u, a) ==
    /\ graph' = record_action(graph, u, a)
    /\ Called(<<"record_action", u, a>>)
    /\ UNCHANGED mirrored

ClientRecordViolation(aid, cid, reason) ==
    /\ graph' = record_violation(graph, aid, cid, reason)
    /\ Called(<<"record_violation", aid, cid, reason>>)
    /\ UNCHANGED mirrored

\* a client on an empty store, after ensure_schema
InitClient ==
    /\ graph = EmptyGraph
    /\ mem = <<>>
    /\ memEver = {}
    /\ memEnabled = FALSE
    /\ nextC = 0
    /\ nextA = 0
    /\ fails = 0
    /\ wk = [w \in Workers |-> IdleWorker]
    /\ mirrored = {}
    /\ lastCall = NoCall
    /\ repeated = FALSE
    /\ calls = 0
    /\ race = NoRace

NextClient ==
    \/ \E u \in Users : ClientUpsertUser(u)
    \/ \E c \in ClientPayloads : ClientUpsertConstraint(USER_ID, c)
    \/ \E u \in Users, a \in ClientActions : ClientRecordAction(u, a)
    \/ \E n \in 1..2, r \in ClientReasons : ClientRecordViolation(AId(n), CId(1), r)

SpecClient == InitClient /\ [][NextClient]_vars

\* C7: a call of upsert_user, upsert_constraint or record_action that
\* repeats the call just before it, with the same arguments, leaves the
\* whole graph (nodes, properties and edges) as the first call left it.
UpsertTwiceIsNoOp ==
    [][ (lastCall' = lastCall
         /\ lastCall[1] \in {"upsert_user", "upsert_constraint", "record_action"})
        => graph' = graph ]_vars

\* upsert_constraint of an hour constraint has just been called twice running
UpsertConstraintRepeated ==
    /\ repeated
    /\ lastCall[1] = "upsert_constraint"
    /\ lastCall[3].type = NO_MEETINGS_AFTER_HOUR
    /\ TimeWindowsOf(graph, lastCall[3].id) # {}

\* the hour and the party the Constraint node cid now carries
NodeParams(G, cid) == JsonLoads(G.constraints[cid].params_json)

\* C10: there is at most one TimeWindow node per hour and at most one
\* Resource node per lower-cased banned party, and every constraint with
\* that hour (that party) is linked to this one node.
SatellitesKeyedAndShared ==
    /\ \A t1, t2 \in DOMAIN graph.timeWindows :
        graph.timeWindows[t1].endHour = graph.timeWindows[t2].endHour => t1 = t2
    /\ \A r1, r2 \in DOMAIN graph.resources :
        graph.resources[r1].name = graph.resources[r2].name => r1 = r2
    /\ \A c \in DOMAIN graph.constraints :
        /\ graph.constraints[c].type = NO_MEETINGS_AFTER_HOUR =>
            \E t \in TimeWindowsOf(graph, c) :
                graph.timeWindows[t].endHour = NodeParams(graph, c).hour
        /\ graph.constraints[c].type = NO_SHARING_WITH_EXTERNALS =>
            \E r \in ResourcesOf(graph, c) :
                graph.resources[r].name = LowerWord(NodeParams(graph, c).banned_party)

\* two constraints with the same hour share their TimeWindow, and two whose
\* banned parties differ in case only share their Resource
SatelliteShared ==
    /\ \E c1, c2 \in DOMAIN graph.constraints :
        /\ c1 # c2
        /\ graph.constraints[c1].type = NO_MEETINGS_AFTER_HOUR
        /\ graph.constraints[c2].type = NO_MEETINGS_AFTER_HOUR
        /\ TimeWindowsOf(graph, c1) \cap TimeWindowsOf(graph, c2) # {}
       \/
        /\ c1 # c2
        /\ graph.constraints[c1].type = NO_SHARING_WITH_EXTERNALS
        /\ graph.constraints[c2].type = NO_SHARING_WITH_EXTERNALS
        /\ NodeParams(graph, c1) # NodeParams(graph, c2)
        /\ ResourcesOf(graph, c1) \cap ResourcesOf(graph, c2) # {}

----------------------------------------------------------------------------
(* Two concurrent upsert_constraint calls with the same payload; each
   session.run is one auto-commit transaction *)

Procs == {"p1", "p2"}

\* the graphs the two calls may start on: empty, or holding one constraint
RaceStarts ==
    {EmptyGraph} \cup {upsert_constraint(EmptyGraph, USER_ID, c) : c \in ClientPayloads}

InitRace ==
    /\ graph \in RaceStarts
    /\ \E u \in Users, c \in ClientPayloads :
        race = [pc |-> [p \in Procs |-> "tx1"], user_id |-> u, c |-> c, start |-> graph]
    /\ mem = <<>>
    /\ memEver = {}
    /\ memEnabled = FALSE
    /\ nextC = 0
    /\ nextA = 0
    /\ fails = 0
    /\ wk = [w \in Workers |-> IdleWorker]
    /\ mirrored = {}
    /\ lastCall = NoCall
    /\ repeated = FALSE
    /\ calls = 0

RaceUnchanged ==
    UNCHANGED <<mem, memEver, memEnabled, nextC, nextA, fails, wk, mirrored,
                lastCall, repeated, calls>>

\* p commits the statement that merges user, constraint and HAS_CONSTRAINT
RaceTx1(p) ==
    /\ race.pc[p] = "tx1"
    /\ graph' = UpsertConstraintTx(graph, race.user_id, race.c)
    /\ race' = [race EXCEPT !.pc[p] = IF HasSatellite(race.c.type) THEN "sat" ELSE "done"]
    /\ RaceUnchanged

\* p commits the type-specific statement
RaceSatellite(p) ==
    /\ race.pc[p] = "sat"
    /\ graph' = SatelliteTx(graph, race.c)
    /\ race' = [race EXCEPT !.pc[p] = "done"]
    /\ RaceUnchanged

NextRace ==
    \/ \E p \in Procs : RaceTx1(p)
    \/ \E p \in Procs : RaceSatellite(p)

SpecRace == InitRace /\ [][NextRace]_vars

BothDone == DOMAIN race.pc = Procs /\ \A p \in Procs : race.pc[p] = "done"

\* C8: when two concurrent upsert_constraint calls with the same payload
\* have both returned, in whatever order their statements were committed,
\* the graph is the one a single call would have produced and no edge is
\* duplicated.
ConcurrentUpsertConverges ==
    BothDone =>
        /\ graph = upsert_constraint(race.start, race.user_id, race.c)
        /\ NoParallelEdges(graph)

\* both calls of an upsert with a type-specific statement have returned
BothUpsertsReturned ==
    /\ BothDone
    /\ HasSatellite(race.c.type)
    /\ race.c.id \in DOMAIN race.start.constraints
    /\ graph # race.start

----------------------------------------------------------------------------
(* Re-upserts of one constraint id *)

\* C11, as claimed: after any sequence of upsert_constraint calls every
\* Constraint node has at most one REQUIRES_TIMEWINDOW edge and at most one
\* BANS_RESOURCE edge, and has such an edge only if its current type
\* mandates it.
SatelliteEdgesFollowType ==
    \A c \in DOMAIN graph.constraints :
        /\ Cardinality(TimeWindowsOf(graph, c)) <= 1
        /\ Cardinality(ResourcesOf(graph, c)) <= 1
        /\ TimeWindowsOf(graph, c) # {} => graph.constraints[c].type = NO_MEETINGS_AFTER_HOUR
        /\ ResourcesOf(graph, c) # {} => graph.constraints[c].type = NO_SHARING_WITH_EXTERNALS

----------------------------------------------------------------------------
(* record_violation on ids without a node *)

\* C12, as claimed: record_violation never returns normally having written
\* nothing; a call that has returned (lastCall is the call that returned
\* last) has left its VIOLATES edge in the graph.
RecordViolationNeverSilent ==
    lastCall[1] = "record_violation" =>
        <<lastCall[2], lastCall[3]>> \in DOMAIN graph.violates

----------------------------------------------------------------------------
(* Failures of the memory service and of the graph store *)

\* the declare handler of w ended in a failure of mem.store_constraint
StoreFailed(w) ==
    /\ wk[w].pc = "done" /\ wk[w].op = "declare" /\ wk[w].resp.status = "500"
    /\ <<USER_ID, TheParsed(w).id>> \notin memEver

\* C13: a failing memory-service or graph-store call ends its handler at
\* once with an error answer (HTTP 500, never a success), writes nothing
\* and is not attempted again; after a failed memory store the constraint
\* is never written to the graph.
FailureEndsOperation ==
    /\ [][ fails' # fails =>
            /\ graph' = graph /\ mem' = mem /\ mirrored' = mirrored
            /\ \A w \in Workers :
                wk'[w] # wk[w] =>
                    /\ wk'[w].pc = "done"
                    /\ wk'[w].resp.status = "500"
                    /\ ~wk'[w].resp.ok
                    /\ wk'[w].resp.constraint = {} ]_vars
    /\ [](\A w \in Workers :
            (wk[w].parsed # {} /\ StoreFailed(w)) =>
                TheParsed(w).id \notin DOMAIN graph.constraints)

\* a declaration whose remote memory store failed has ended
RemoteStoreFailed ==
    \E w \in Workers : wk[w].parsed # {} /\ StoreFailed(w) /\ memEnabled /\ fails > 0

----------------------------------------------------------------------------
(* The three rules of evaluate_request, on any records the memory may hold *)

\* type and params of the records on file: hour limits around the hours
\* asked for, caps above, at and below the amounts asked for, a zero, a
\* negative and a missing cap, a missing hour, and two banned parties
RuleParams ==
    << <<NO_MEETINGS_AFTER_HOUR, [hour |-> 19]>>,
       <<NO_MEETINGS_AFTER_HOUR, [hour |-> 20]>>,
       <<NO_MEETINGS_AFTER_HOUR, [hour |-> 21]>>,
       <<NO_MEETINGS_AFTER_HOUR, [hour |-> 22]>>,
       <<NO_MEETINGS_AFTER_HOUR, <<>>>>,
       <<BUDGET_CAP, [max_amount |-> 100000]>>,
       <<BUDGET_CAP, [max_amount |-> 150000]>>,
       <<BUDGET_CAP, [max_amount |-> 50040]>>,
       <<BUDGET_CAP, [max_amount |-> 0]>>,
       <<BUDGET_CAP, [max_amount |-> 0 - 100]>>,
       <<BUDGET_CAP, <<>>>>,
       <<NO_SHARING_WITH_EXTERNALS, [banned_party |-> "contractor"]>>,
       <<NO_SHARING_WITH_EXTERNALS, [banned_party |-> "external"]>> >>

\* the k-th record, under its own id
RuleRecord(k) ==
    [id |-> CId(k), type |-> RuleParams[k][1], severity |-> HARD,
     text |-> <<W("text")>>, params |-> RuleParams[k][2]]

\* the records of the index set S, in the order they were stored
RECURSIVE RuleRecords(_)
RuleRecords(S) ==
    IF S = {} THEN <<>>
    ELSE LET k == CHOOSE x \in S : \A y \in S : y <= x
         IN  Append(RuleRecords(S \ {k}), RuleRecord(k))

\* the graph after the records of the list l were mirrored
RECURSIVE MirrorRecords(_)
MirrorRecords(l) ==
    IF l = <<>> THEN upsert_user(EmptyGraph, USER_ID)
    ELSE upsert_constraint(MirrorRecords(SubSeq(l, 1, Len(l) - 1)), USER_ID, l[Len(l)])

RuleRequestTexts ==
    { <<W("schedule"), W("a"), W("call"), W("at"), T12(11, "pm")>>,
      <<W("schedule"), W("a"), W("call"), W("at"), T12(10, "pm")>>,
      <<W("schedule"), W("a"), W("call"), W("at"), T12(8, "pm")>>,
      <<W("schedule"), W("a"), W("call")>>,
      <<W("share"), W("the"), W("meeting"), W("dataset"), W("with"), W("our"),
        W("contractor"), W("at"), T12(11, "pm")>>,
      <<W("export"), W("the"), W("customer"), W("dataset"), W("to"), W("our"), W("contractor")>>,
      <<W("export"), W("the"), W("customer"), W("dataset"), W("internally")>>,
      <<W("buy"), W("a"), W("license"), W("for"), Usd(150000)>>,
      <<W("buy"), W("a"), W("license"), W("for"), Usd(50000)>>,
      <<W("buy"), W("a"), W("license")>>,
      <<W("export"), W("the"), W("dataset"), W("to"), W("our"), W("contractor"),
        W("for"), Usd(150000)>>,
      <<W("hello")>> }

\* up to MaxOnFile records are on file and mirrored, the fallback store is
\* in use, and one action id is left to draw
InitRules ==
    /\ \E S \in SUBSET (DOMAIN RuleParams) :
        /\ Cardinality(S) <= MaxOnFile
        /\ mem = IF S = {} THEN <<>> ELSE (USER_ID :> RuleRecords(S))
        /\ graph = MirrorRecords(RuleRecords(S))
        /\ mirrored = {RuleRecord(k) : k \in S}
        /\ memEver = {<<USER_ID, CId(k)>> : k \in S}
        /\ nextC = Cardinality(S)
    /\ memEnabled = FALSE
    /\ nextA = MaxActions - 1
    /\ fails = 0
    /\ wk = [w \in Workers |-> IdleWorker]
    /\ lastCall = NoCall
    /\ repeated = FALSE
    /\ calls = 0
    /\ race = NoRace

NextRules ==
    \/ \E w \in Workers, text \in RuleRequestTexts : ProcListLocal(w, text)
    \/ \E w \in Workers : EvalRecord(w)
    \/ \E w \in Workers : EvalViolation(w)
    \/ \E w \in Workers : EvalExplain(w)

SpecRules == InitRules /\ [][NextRules]_vars


\* C14: the alternatives of every blocked Decision hold no string twice,
\* are at most 5, come from the suggestions appended during matching in the
\* order of their first occurrences, and leave a suggestion out only when
\* the five before it fill the list.
AlternativesFirstOccurrencePrefix ==
    \A w \in Workers :
        (Returned(w) /\ ~wk[w].resp.ok) =>
            LET out == wk[w].resp.alternatives
                raw == wk[w].alternatives
                First(x) == CHOOSE i \in DOMAIN raw :
                                raw[i] = x /\ \A j \in DOMAIN raw : j < i => raw[j] # x
            IN  /\ \A i, j \in DOMAIN out : out[i] = out[j] => i = j
                /\ Len(out) <= 5
                /\ \A i \in DOMAIN out : \E k \in DOMAIN raw : raw[k] = out[i]
                /\ \A i, j \in DOMAIN out : i < j => First(out[i]) < First(out[j])
                /\ \A k \in DOMAIN raw :
                    (\A i \in DOMAIN out : out[i] # raw[k]) =>
                        /\ Len(out) = 5
                        /\ \A i \in DOMAIN out : First(out[i]) < k

\* a blocked Decision whose appended suggestions repeat and exceed five
AlternativesCut ==
    \E w \in Workers :
        /\ Returned(w) /\ ~wk[w].resp.ok
        /\ Len(wk[w].resp.alternatives) = 5
        /\ \E k \in DOMAIN wk[w].alternatives :
            \A i \in DOMAIN wk[w].resp.alternatives :
                wk[w].resp.alternatives[i] # wk[w].alternatives[k]
        /\ \E j, k \in DOMAIN wk[w].alternatives :
            j # k /\ wk[w].alternatives[j] = wk[w].alternatives[k]


\* the number of violations the matcher of w found for constraint cid
ViolationsOf(w, cid) ==
    Cardinality({j \in DOMAIN wk[w].violations : wk[w].violations[j].cid = cid})

\* the listed record i of w is of type tp and carries the parameter key
ListedWith(w, i, tp, key) ==
    wk[w].constraints[i].type = tp /\ key \in DOMAIN wk[w].constraints[i].params

\* C15: for a request classified SCHEDULE_MEETING with extracted hour r,
\* every NO_MEETINGS_AFTER_HOUR constraint with hour h has one violation of
\* its own if r is present and r > h, and none otherwise; with the single
\* constraint hour = 21 a request at 22 is blocked with one violation entry
\* naming that constraint and an alternative at min(h, 20):00, and a
\* request at 20 is approved.
MeetingRule ==
    \A w \in Workers :
        (Returned(w) /\ wk[w].action_type = SCHEDULE_MEETING) =>
            LET r == RequestParseHour(wk[w].text)
                l == wk[w].constraints
                Single21 == /\ Len(l) = 1
                            /\ ListedWith(w, 1, NO_MEETINGS_AFTER_HOUR, "hour")
                            /\ l[1].params.hour = 21
            IN  /\ \A i \in DOMAIN l :
                    ListedWith(w, i, NO_MEETINGS_AFTER_HOUR, "hour") =>
                        ViolationsOf(w, l[i].id) =
                            IF \E x \in r : x > l[i].params.hour THEN 1 ELSE 0
                /\ (Single21 /\ r = {22}) =>
                    /\ ~wk[w].resp.ok
                    /\ Len(wk[w].violations) = 1
                    /\ wk[w].violations[1].cid = l[1].id
                    /\ Cardinality(wk[w].resp.violations) = 1
                    /\ \A e \in wk[w].resp.violations :
                        e.times = 1 /\ e.row.constraint_id = l[1].id
                    /\ \E k \in DOMAIN wk[w].resp.alternatives :
                        /\ wk[w].resp.alternatives[k].a = 20
                        /\ wk[w].resp.alternatives[k].b = 21
                /\ (Single21 /\ r = {20}) => wk[w].resp.ok

\* a call at 22:00 was evaluated against the limits 21 and 22: the first is
\* violated, the second is not
MeetingAtTheLimit ==
    \E w \in Workers :
        /\ Returned(w) /\ wk[w].action_type = SCHEDULE_MEETING
        /\ RequestParseHour(wk[w].text) = {22}
        /\ \E i, j \in DOMAIN wk[w].constraints :
            /\ ListedWith(w, i, NO_MEETINGS_AFTER_HOUR, "hour")
            /\ ListedWith(w, j, NO_MEETINGS_AFTER_HOUR, "hour")
            /\ wk[w].constraints[i].params.hour = 21
            /\ wk[w].constraints[j].params.hour = 22
        /\ Len(wk[w].violations) = 1


\* C16: for a request classified SHARE_DATA that mentions an external
\* party every NO_SHARING_WITH_EXTERNALS constraint on file has its
\* violation, whatever its banned_party; for one that mentions none, no
\* constraint is violated and the request is approved.
SharingRule ==
    \A w \in Workers :
        (Returned(w) /\ wk[w].action_type = SHARE_DATA) =>
            LET l == wk[w].constraints
            IN  IF ExternalWords(_norm(wk[w].text))
                THEN /\ \A i \in DOMAIN l :
                          l[i].type = NO_SHARING_WITH_EXTERNALS => ViolationsOf(w, l[i].id) = 1
                     /\ (\E i \in DOMAIN l : l[i].type = NO_SHARING_WITH_EXTERNALS)
                          => ~wk[w].resp.ok
                ELSE wk[w].violations = <<>> /\ wk[w].resp.ok

\* a request naming the contractor was blocked by two sharing constraints
\* with different banned parties
SharingBlockedByEvery ==
    \E w \in Workers :
        /\ Returned(w) /\ wk[w].action_type = SHARE_DATA /\ ~wk[w].resp.ok
        /\ Len(wk[w].violations) = 2
        /\ \E i, j \in DOMAIN wk[w].constraints :
            /\ ListedWith(w, i, NO_SHARING_WITH_EXTERNALS, "banned_party")
            /\ ListedWith(w, j, NO_SHARING_WITH_EXTERNALS, "banned_party")
            /\ wk[w].constraints[i].params.banned_party
                 # wk[w].constraints[j].params.banned_party

\* C17: for a request classified SPEND_MONEY with extracted amount a, a
\* BUDGET_CAP constraint with cap m has its violation if a is present,
\* m > 0 and a > m, and none otherwise (a = m, a zero, negative or missing
\* cap); with the single cap 1000 the amount 1500 is blocked, naming both
\* amounts, and the amount 500 is approved.
BudgetRule ==
    \A w \in Workers :
        (Returned(w) /\ wk[w].action_type = SPEND_MONEY) =>
            LET a == RequestParseAmount(wk[w].text)
                l == wk[w].constraints
                Single1000 == /\ Len(l) = 1
                              /\ ListedWith(w, 1, BUDGET_CAP, "max_amount")
                              /\ l[1].params.max_amount = 100000
            IN  /\ \A i \in DOMAIN l :
                    l[i].type = BUDGET_CAP =>
                        ViolationsOf(w, l[i].id) =
                            IF /\ "max_amount" \in DOMAIN l[i].params
                               /\ l[i].params.max_amount > 0
                               /\ \E x \in a : x > l[i].params.max_amount
                            THEN 1 ELSE 0
                /\ (Single1000 /\ a = {150000}) =>
                    /\ ~wk[w].resp.ok
                    /\ wk[w].violations =
                         <<[cid |-> l[1].id, reason |-> Reason("budget", 150000, 100000)]>>
                /\ (Single1000 /\ a = {50000}) => wk[w].resp.ok

\* a purchase of 1500 was evaluated against a cap of 1500, a cap of zero
\* or less and a cap of 1000, and only the last is violated
SpendAtTheCap ==
    \E w \in Workers :
        /\ Returned(w) /\ wk[w].action_type = SPEND_MONEY
        /\ RequestParseAmount(wk[w].text) = {150000}
        /\ \E i, j, k \in DOMAIN wk[w].constraints :
            /\ ListedWith(w, i, BUDGET_CAP, "max_amount")
            /\ ListedWith(w, j, BUDGET_CAP, "max_amount")
            /\ ListedWith(w, k, BUDGET_CAP, "max_amount")
            /\ wk[w].constraints[i].params.max_amount = 150000
            /\ wk[w].constraints[j].params.max_amount <= 0
            /\ wk[w].constraints[k].params.max_amount = 100000
        /\ Len(wk[w].violations) = 1

\* the one constraint type the rule of an action type looks at
RuleType(action_type) ==
    CASE action_type = SCHEDULE_MEETING -> {NO_MEETINGS_AFTER_HOUR}
      [] action_type = SHARE_DATA -> {NO_SHARING_WITH_EXTERNALS}
      [] action_type = SPEND_MONEY -> {BUDGET_CAP}
      [] OTHER -> {}

MeetingWords(t) == HasAny(t, {"meeting", "call", "schedule", "book", "invite"})

SharingWords(t) ==
    /\ HasAny(t, {"share", "send", "export", "forward", "upload"})
    /\ HasAny(t, {"dataset", "data", "file", "files", "csv"})

SpendingWords(t) == HasAny(t, {"buy", "purchase", "spend", "pay", "order"}) \/ Has(t, "$")

\* C18: the action type is the first of meeting, share, spend whose
\* vocabulary the request holds, else UNKNOWN; every violation found is of a
\* constraint of the one type the rule of that action type looks at; an
\* UNKNOWN request is approved; a request with meeting and sharing
\* vocabulary is a meeting and violates no sharing constraint.
OneRulePerRequest ==
    \A w \in Workers :
        Returned(w) =>
            LET t == _norm(wk[w].text)
                at == wk[w].action_type
            IN  /\ at = IF MeetingWords(t) THEN SCHEDULE_MEETING
                        ELSE IF SharingWords(t) THEN SHARE_DATA
                        ELSE IF SpendingWords(t) THEN SPEND_MONEY
                        ELSE UNKNOWN
                /\ wk[w].resp.action_type = at
                /\ \A j \in DOMAIN wk[w].violations :
                    ListedRecord(w, wk[w].violations[j].cid).type \in RuleType(at)
                /\ \A e \in wk[w].resp.violations : e.row.type \in RuleType(at)
                /\ at = UNKNOWN => wk[w].resp.ok
                /\ (MeetingWords(t) /\ SharingWords(t)) =>
                    /\ at = SCHEDULE_MEETING
                    /\ \A j \in DOMAIN wk[w].violations :
                        ListedRecord(w, wk[w].violations[j].cid).type
                            # NO_SHARING_WITH_EXTERNALS

\* a request with meeting and sharing vocabulary that names the contractor
\* was blocked by an hour limit while a sharing constraint was on file
MeetingWinsOverSharing ==
    \E w \in Workers :
        /\ Returned(w) /\ ~wk[w].resp.ok
        /\ MeetingWords(_norm(wk[w].text)) /\ SharingWords(_norm(wk[w].text))
        /\ ExternalWords(_norm(wk[w].text))
        /\ \E i \in DOMAIN wk[w].constraints :
            wk[w].constraints[i].type = NO_SHARING_WITH_EXTERNALS

----------------------------------------------------------------------------
(* Declarations of any text *)

\* texts of every rule family, with and without the parameter, and texts
\* that trigger an earlier rule while carrying the words of a later one
ParseTexts ==
    { <<W("No"), W("meetings"), W("after"), T12(9, "pm")>>,
      <<W("no"), W("calls"), W("after"), T12(12, "am")>>,
      <<W("no"), W("meetings"), W("after"), W("lunch")>>,
      <<W("no"), W("meetings"), W("after"), Num(25)>>,
      <<W("no"), W("calls"), W("after"), W("lunch"), W("budget"), W("cap"), Usd(100000)>>,
      <<W("Budget"), W("cap"), Usd(100000)>>,
      <<W("budget"), W("max"), Num(1200)>>,
      <<W("budget"), W("cap"), W("Never"), W("share"), W("data"), W("with"),
        W("external"), W("contractors")>>,
      <<W("Never"), W("share"), W("datasets"), W("with"), W("external"), W("contractors")>>,
      <<W("Never"), W("send"), W("files"), W("to"), W("external"), W("vendor")>>,
      <<W("share"), W("the"), W("dataset")>>,
      <<W("hello")>> }

InitParse ==
    /\ graph = upsert_user(EmptyGraph, USER_ID)
    /\ mem = <<>>
    /\ memEver = {}
    /\ memEnabled \in BOOLEAN
    /\ nextC = 0
    /\ nextA = 0
    /\ fails = 0
    /\ wk = [w \in Workers |-> IdleWorker]
    /\ mirrored = {}
    /\ lastCall = NoCall
    /\ repeated = FALSE
    /\ calls = 0
    /\ race = NoRace

NextParse ==
    \/ \E w \in Workers, text \in ParseTexts : DeclParse(w, text)
    \/ \E w \in Workers : DeclStoreRemote(w)
    \/ \E w \in Workers : DeclStoreRead(w)
    \/ \E w \in Workers : DeclStoreWrite(w)
    \/ \E w \in Workers : DeclUpsert(w)
    \/ \E w \in Workers : DeclSatellite(w)

SpecParse == InitParse /\ [][NextParse]_vars

\* severity HARD and the params its type requires
WellShaped(type, severity, params) ==
    /\ severity = HARD
    /\ type \in {NO_MEETINGS_AFTER_HOUR, BUDGET_CAP, NO_SHARING_WITH_EXTERNALS}
    /\ type = NO_MEETINGS_AFTER_HOUR =>
        DOMAIN params = {"hour"} /\ params.hour \in 0..23
    /\ type = BUDGET_CAP =>
        DOMAIN params = {"max_amount"} /\ params.max_amount \in Nat
    /\ type = NO_SHARING_WITH_EXTERNALS =>
        DOMAIN params = {"banned_party"} /\ params.banned_party \in {"contractor", "external"}

MeetingTrigger(t) == (Has(t, "meeting") \/ Has(t, "call")) /\ Has(t, "after")

BudgetTrigger(t) ==
    \/ Has(t, "budget") /\ (Has(t, "cap") \/ Has(t, "max"))
    \/ Has(t, "spend") /\ Has(t, "max")

\* C19: a declaration has either a parsed constraint and no error answer
\* or the error answer and no constraint; a parsed constraint is HARD with
\* the params of its type; a text with the meeting trigger gives an hour
\* constraint or the time error, one with the budget trigger and without
\* the meeting trigger a budget cap or the amount error, never a constraint
\* of a later rule; and every record in memory and every Constraint node
\* of the graph has that shape.
ParsedConstraintShape ==
    /\ \A w \in Workers :
        wk[w].op = "declare" =>
            LET t == _normalize(wk[w].text)
                failed == wk[w].resp.status = "400"
                types == {c.type : c \in wk[w].parsed}
            IN  /\ failed <=> wk[w].parsed = {}
                /\ Cardinality(wk[w].parsed) <= 1
                /\ \A c \in wk[w].parsed : WellShaped(c.type, c.severity, c.params)
                /\ failed => wk[w].resp.detail \in {ErrTime, ErrAmount, ErrUnrecognized}
                /\ MeetingTrigger(t) =>
                    /\ types \subseteq {NO_MEETINGS_AFTER_HOUR}
                    /\ failed => wk[w].resp.detail = ErrTime
                /\ (~MeetingTrigger(t) /\ BudgetTrigger(t)) =>
                    /\ types \subseteq {BUDGET_CAP}
                    /\ failed => wk[w].resp.detail = ErrAmount
                /\ (~MeetingTrigger(t) /\ ~BudgetTrigger(t)) =>
                    /\ types \subseteq {NO_SHARING_WITH_EXTERNALS}
                    /\ failed => wk[w].resp.detail = ErrUnrecognized
    /\ \A u \in DOMAIN mem : \A i \in DOMAIN mem[u] :
        WellShaped(mem[u][i].type, mem[u][i].severity, mem[u][i].params)
    /\ \A c \in DOMAIN graph.constraints :
        WellShaped(graph.constraints[c].type, graph.constraints[c].severity,
                   JsonLoads(graph.constraints[c].params_json))

\* a text with the meeting trigger, no time and a budget cap was refused
\* with the time error while an earlier constraint is stored and mirrored
EarlierRuleErrorWins ==
    \E w \in Workers :
        /\ wk[w].op = "declare" /\ wk[w].resp.status = "400"
        /\ wk[w].resp.detail = ErrTime
        /\ BudgetTrigger(_normalize(wk[w].text))
        /\ PolicyParseAmount(wk[w].text) # {}
        /\ mem # <<>>
        /\ DOMAIN graph.constraints # {}

----------------------------------------------------------------------------
(* Sequential store_constraint calls on the fallback store *)

\* two versions of the records of two ids
StoreRecords ==
    {[id |-> CId(n), type |-> BUDGET_CAP, severity |-> HARD, text |-> <<W("text")>>,
      params |-> [max_amount |-> a]] : n \in 1..2, a \in {100000, 50040}}

\* store_constraint(u, c) in fallback mode, from _read_local to _write_local
ClientStore(u, c) ==
    /\ ~memEnabled
    /\ calls < MaxCalls
    /\ mem' = _store_local(mem, u, c)
    /\ memEver' = memEver \cup {<<u, c.id>>}
    /\ calls' = calls + 1
    /\ lastCall' = <<"store_constraint", u, c>>
    /\ repeated' = (lastCall' = lastCall)
    /\ UNCHANGED <<graph, memEnabled, nextC, nextA, fails, wk, mirrored, race>>

\* no fallback file yet
InitStore ==
    /\ graph = EmptyGraph
    /\ mem = <<>>
    /\ memEver = {}
    /\ memEnabled = FALSE
    /\ nextC = 0
    /\ nextA = 0
    /\ fails = 0
    /\ wk = [w \in Workers |-> IdleWorker]
    /\ mirrored = {}
    /\ lastCall = NoCall
    /\ repeated = FALSE
    /\ calls = 0
    /\ race = NoRace

NextStore == \E u \in Users, c \in StoreRecords : ClientStore(u, c)

SpecStore == InitStore /\ [][NextStore]_vars

\* the records list_constraints(u) returns with id cid, on the store m
ListedUnder(m, u, cid) ==
    LET l == _list_local(m, u)
    IN  {l[i] : i \in {j \in DOMAIN l : l[j].id = cid}}

ListedIds(m, u) ==
    LET l == _list_local(m, u) IN {l[i].id : i \in DOMAIN l}

\* C20: at any time list_constraints(u) holds each id at most once and
\* every id ever stored for u; a store_constraint(u, c) leaves c as the
\* one record of its id, every other record of u and every other user's
\* list as they were.
StoreIsUpsertById ==
    /\ [](\A u \in Users :
            /\ \A i, j \in DOMAIN _list_local(mem, u) :
                _list_local(mem, u)[i].id = _list_local(mem, u)[j].id => i = j
            /\ \A cid \in {CId(n) : n \in 1..2} :
                <<u, cid>> \in memEver <=> cid \in ListedIds(mem, u)
            /\ (lastCall[1] = "store_constraint" /\ lastCall[2] = u) =>
                ListedUnder(mem, u, lastCall[3].id) = {lastCall[3]})
    /\ [][ lastCall'[1] = "store_constraint" =>
            LET u == lastCall'[2]
                c == lastCall'[3]
            IN  /\ ListedUnder(mem', u, c.id) = {c}
                /\ ListedIds(mem', u) = ListedIds(mem, u) \cup {c.id}
                /\ \A cid \in ListedIds(mem, u) \ {c.id} :
                    ListedUnder(mem', u, cid) = ListedUnder(mem, u, cid)
                /\ \A u2 \in Users \ {u} :
                    _list_local(mem', u2) = _list_local(mem, u2) ]_vars

\* after three stores both users hold one record, of the same id and in
\* different versions: one store was made on an id already on file, and
\* the last one changed the record or the user
RecordStoredAgain ==
    \E u \in Users :
        /\ lastCall[1] = "store_constraint" /\ lastCall[2] = u
        /\ calls >= 3 /\ ~repeated
        /\ Len(_list_local(mem, u)) = 1
        /\ \E u2 \in Users \ {u} :
            /\ Len(_list_local(mem, u2)) = 1
            /\ _list_local(mem, u2)[1].id = _list_local(mem, u)[1].id
            /\ _list_local(mem, u2)[1] # _list_local(mem, u)[1]

----------------------------------------------------------------------------
(* The Decision and what the evaluation wrote *)

\* C21, as claimed: a returned Decision has ok = TRUE exactly when the
\* matcher found no violation; an approved Decision has empty violations
\* and alternatives and its action has no VIOLATES edge; a blocked Decision
\* has ok = FALSE and a non-empty violations list.
DecisionConsistent ==
    \A w \in Workers :
        Returned(w) =>
            /\ wk[w].resp.ok <=> (wk[w].violations = <<>>)
            /\ wk[w].resp.ok =>
                /\ wk[w].resp.violations = {}
                /\ wk[w].resp.alternatives = <<>>
                /\ \A e \in DOMAIN graph.violates : e[1] # wk[w].action_id
            /\ ~wk[w].resp.ok => wk[w].resp.violations # {}

----------------------------------------------------------------------------
(* VIOLATES edges under repeated record_violation calls *)

\* C22, as claimed: a VIOLATES edge, once created, stays in the graph with
\* the reason it was created with: no later record_violation call removes
\* it or overwrites its reason.
ViolatesEdgesNeverMutated ==
    [][ \A e \in DOMAIN graph.violates :
            /\ e \in DOMAIN graph'.violates
            /\ graph'.violates[e] = graph.violates[e] ]_vars

----------------------------------------------------------------------------
(* Requests and declarations on a graph that already holds an action *)

\* the loop over violations, each record_violation succeeding
RECURSIVE RecordViolations(_, _, _)
RecordViolations(G, action_id, vs) ==
    IF vs = <<>> THEN G
    ELSE RecordViolations(record_violation(G, action_id, vs[1].cid, vs[1].reason),
                          action_id, Tail(vs))

\* the graph a whole evaluate_request leaves: the n-th action recorded, then
\* the VIOLATES edges of the violations matched against the list l
Evaluated(G, l, text, n) ==
    LET action_type == classify_action(text)
        g1 == record_action(G, USER_ID,
                 [id |-> AId(n), type |-> action_type, text |-> text, ts |-> {n}])
    IN  RecordViolations(g1, AId(n), Match(action_type, text, l).violations)

AuditRequestTexts ==
    { <<W("schedule"), W("a"), W("call"), W("at"), T12(11, "pm")>>,
      <<W("export"), W("the"), W("customer"), W("dataset"), W("to"), W("our"), W("contractor")>>,
      <<W("buy"), W("a"), W("license"), W("for"), Usd(150000)>>,
      <<W("hello")>> }

\* the records on file: the hour limit 22, the cap 1000, the contractor ban
AuditOnFile == {4, 6, 12}

\* some records are stored and mirrored, an earlier request (action id 0)
\* may have been evaluated against them, the fallback store is in use, one
\* constraint id is left to draw
InitAudit ==
    /\ \E S \in SUBSET AuditOnFile :
        /\ mem = IF S = {} THEN <<>> ELSE (USER_ID :> RuleRecords(S))
        /\ \/ graph = MirrorRecords(RuleRecords(S))
           \/ \E text \in AuditRequestTexts :
                graph = Evaluated(MirrorRecords(RuleRecords(S)), RuleRecords(S), text, 0)
        /\ mirrored = {RuleRecord(k) : k \in S}
        /\ memEver = {<<USER_ID, CId(k)>> : k \in S}
    /\ nextC = MaxConstraints - 1
    /\ memEnabled = FALSE
    /\ nextA = 0
    /\ fails = 0
    /\ wk = [w \in Workers |-> IdleWorker]
    /\ lastCall = NoCall
    /\ repeated = FALSE
    /\ calls = 0
    /\ race = NoRace

NextAudit ==
    \/ \E w \in Workers, text \in ConstraintTexts : DeclParse(w, text)
    \/ \E w \in Workers : DeclStoreRead(w)
    \/ \E w \in Workers : DeclStoreWrite(w)
    \/ \E w \in Workers : DeclUpsert(w)
    \/ \E w \in Workers : DeclSatellite(w)
    \/ \E w \in Workers, text \in AuditRequestTexts : ProcListLocal(w, text)
    \/ \E w \in Workers : EvalRecord(w)
    \/ \E w \in Workers : EvalRecordFail(w)
    \/ \E w \in Workers : EvalViolation(w)
    \/ \E w \in Workers : EvalExplain(w)

SpecAudit == InitAudit /\ [][NextAudit]_vars

\* the Action nodes recorded since the start
RecordedSince == DOMAIN graph.actions \ {AId(0)}

----------------------------------------------------------------------------
(* What an evaluation leaves alone *)

\* C25: no step of process_request and evaluate_request, approved or
\* blocked, changes the memory records, a Constraint node or its
\* properties, a HAS_CONSTRAINT edge, a TimeWindow or Resource node or an
\* edge to one; in the graph it adds at most the User node, the Action node
\* of its own action id, the REQUESTED edge to it, and VIOLATES edges from
\* it, and it changes or removes nothing that was there.
EvaluationFrame ==
    [][ \A w \in Workers :
          wk'[w].op = "request" =>
            LET a == wk'[w].action_id
            IN  /\ mem' = mem
                /\ graph'.constraints = graph.constraints
                /\ graph'.hasConstraint = graph.hasConstraint
                /\ graph'.timeWindows = graph.timeWindows
                /\ graph'.resources = graph.resources
                /\ graph'.requiresTW = graph.requiresTW
                /\ graph'.bansResource = graph.bansResource
                /\ graph.users \subseteq graph'.users
                /\ graph'.users \subseteq graph.users \cup {USER_ID}
                /\ \A b \in DOMAIN graph.actions :
                    b \in DOMAIN graph'.actions /\ graph'.actions[b] = graph.actions[b]
                /\ DOMAIN graph'.actions \subseteq DOMAIN graph.actions \cup {a}
                /\ \A e \in DOMAIN graph.requested :
                    e \in DOMAIN graph'.requested /\ graph'.requested[e] = graph.requested[e]
                /\ DOMAIN graph'.requested \subseteq DOMAIN graph.requested \cup {<<USER_ID, a>>}
                /\ \A e \in DOMAIN graph.violates :
                    e \in DOMAIN graph'.violates /\ graph'.violates[e] = graph.violates[e]
                /\ \A e \in DOMAIN graph'.violates \ DOMAIN graph.violates : e[1] = a ]_vars

\* a request was blocked by a constraint with a satellite, its VIOLATES
\* edge is written, and another constraint with a satellite is on file
BlockedWithConstraintsOnFile ==
    \E w \in Workers :
        /\ Returned(w) /\ ~wk[w].resp.ok
        /\ \E e \in DOMAIN graph.violates :
            /\ e[1] = wk[w].action_id
            /\ TimeWindowsOf(graph, e[2]) \cup ResourcesOf(graph, e[2]) # {}
        /\ DOMAIN graph.timeWindows # {} /\ DOMAIN graph.resources # {}
        /\ mem # <<>>

----------------------------------------------------------------------------
(* Two concurrent store_constraint calls on the fallback file; add_constraint
   is a sync handler, which the server runs on threads of a pool, and
   _store_local takes no lock between its _read_local and its _write_local *)

\* two declarations of different ids have reached mem.store_constraint; the
\* file is absent or holds one record
InitStoreRace ==
    /\ mem \in {<<>>} \cup {(u :> <<r>>) : u \in Users, r \in StoreRecords}
    /\ \E c1, c2 \in StoreRecords :
        /\ c1.id = CId(1) /\ c2.id = CId(2)
        /\ race = [pc |-> [p \in Procs |-> "read"], user_id |-> USER_ID,
                   c |-> [p \in Procs |-> IF p = "p1" THEN c1 ELSE c2],
                   data |-> [p \in Procs |-> <<>>], start |-> mem]
    /\ graph = upsert_user(EmptyGraph, USER_ID)
    /\ memEver = Stored(mem)
    /\ memEnabled = FALSE
    /\ nextC = 0
    /\ nextA = 0
    /\ fails = 0
    /\ wk = [w \in Workers |-> IdleWorker]
    /\ mirrored = {}
    /\ lastCall = NoCall
    /\ repeated = FALSE
    /\ calls = 0

\* p runs data = self._read_local()
RaceStoreRead(p) ==
    /\ race.pc[p] = "read"
    /\ race' = [race EXCEPT !.pc[p] = "write", !.data[p] = mem]
    /\ UNCHANGED <<graph, mem, memEver, memEnabled, nextC, nextA, fails, wk,
                   mirrored, lastCall, repeated, calls>>

\* p upserts its record into what it read and runs self._write_local(data)
RaceStoreWrite(p) ==
    /\ race.pc[p] = "write"
    /\ mem' = _store_local(race.data[p], race.user_id, race.c[p])
    /\ memEver' = memEver \cup Stored(mem')
    /\ race' = [race EXCEPT !.pc[p] = "done"]
    /\ UNCHANGED <<graph, memEnabled, nextC, nextA, fails, wk, mirrored,
                   lastCall, repeated, calls>>

NextStoreRace ==
    \/ \E p \in Procs : RaceStoreRead(p)
    \/ \E p \in Procs : RaceStoreWrite(p)

SpecStoreRace == InitStoreRace /\ [][NextStoreRace]_vars

\* C24, as claimed: when two concurrent store_constraint calls for records
\* of different ids have both returned, in whatever order their reads and
\* writes of the file were made, list_constraints holds both records.
ConcurrentStoresBothKept ==
    BothDone =>
        \A p \in Procs : ListedUnder(mem, race.user_id, race.c[p].id) = {race.c[p]}

====
